---- MODULE Spec2Model ----
\* Verification model of the horse-trainer recommendation core:
\*   src/src/models/horse_profile.py   (HorseProfile derived properties)
\*   src/src/models/training_model.py  (TrainingModel.train / generate_recommendations)
\*   src/src/data/data_loader.py       (DataLoader load / save)
\*   src/src/data/preprocessor.py      (DataPreprocessor fit / transform)
\*   src/src/api/endpoints.py          (HTTP endpoints over the persisted collection)
\*   src/horse_memory.py               (HorseMemorySystem)
\*   src/horse_trainer_adapter.py      (HorseTrainerAdapter.handle_query)
\*   src/src/config.py                 (load_config)
EXTENDS Integers, Sequences, FiniteSets, TLC

VARIABLES
    today,                  \* value returned by date.today()
    birth_date,             \* HorseProfile.birth_date of the profile under study
    medical_history,        \* HorseProfile.medical_history: sequence of record dates
    rec_activity,           \* inputs of the pure recommendation helpers
    rec_age,
    rec_medical,
    rec_duration,           \* last value returned by _recommend_duration  ("none" before a call)
    rec_intensity,          \* last value returned by _recommend_intensity ("none" before a call)
    config,                 \* TrainingModel.model_config / recommendations_config
    model,                  \* TrainingModel.model
    feature_pipeline,       \* TrainingModel.feature_pipeline
    performance_predictor,  \* TrainingModel.performance_predictor
    result,                 \* outcome of the last TrainingModel call
    profile,                \* a HorseProfile being serialised
    profile_dict,           \* <<profile.to_dict()>> once taken, <<>> before
    restored,               \* <<outcome of HorseProfile.from_dict>> once taken, <<>> before
    data_file,              \* the JSON file a DataLoader reads and rewrites
    loaded,                 \* <<outcome of the last DataLoader load call>>, <<>> before
    response,               \* <<last HTTP response>>, <<>> before the first request
    preprocessor,           \* DataPreprocessor: fitted flag and the three estimators
    pp_result,              \* <<outcome of the last _preprocess_dataframe call>>
    pp_fit_result,          \* <<outcome of the last call made with fit=True>>
    horses,                 \* HorseMemorySystem.horses, per instance
    conversations,          \* HorseMemorySystem.conversations, per instance
    lock,                   \* HorseMemorySystem.lock, per instance: its holder or "free"
    pc,                     \* per thread: the call in progress and its position
    storage_file,           \* content of the storage file
    tmp_file,               \* content of the temporary file of save
    backups,                \* contents renamed aside by load
    config_file,            \* the file at config_path
    environ,                \* os.environ: the HORSE_TRAINER_ variables that are set
    loaded_config,          \* <<outcome of the last load_config call>>, <<>> before
    last_query,             \* the last query put to the HorseTrainerAdapter, and their count
    reply,                  \* <<what handle_query returned for it>>, <<>> before
    recent                  \* <<value of the last read of profile.recent_training>>, <<>> before

profileVars == <<today, birth_date, medical_history>>
pureVars    == <<rec_activity, rec_age, rec_medical, rec_duration, rec_intensity>>
modelFields == <<model, feature_pipeline, performance_predictor>>
modelVars   == <<config, model, feature_pipeline, performance_predictor, result>>
dictVars    == <<profile, profile_dict, restored>>
loaderVars  == <<data_file, loaded>>
apiVars     == <<response>>
ppVars      == <<preprocessor, pp_result, pp_fit_result>>
memVars     == <<horses, conversations, lock, pc, storage_file, tmp_file, backups>>
coreVars    == <<profileVars, pureVars, modelVars>>
cfgVars     == <<config_file, environ, loaded_config>>
adapterVars == <<last_query, reply>>
sideVars    == <<cfgVars, adapterVars, recent>>
extVars     == <<dictVars, loaderVars, apiVars, ppVars, memVars, sideVars>>
vars        == <<coreVars, extVars>>

\* the variables of a component that is not under study
DictIdle ==
    /\ profile = <<>>
    /\ profile_dict = <<>>
    /\ restored = <<>>

LoaderIdle ==
    /\ data_file = [kind |-> "missing", data |-> <<>>]
    /\ loaded = <<>>

ApiIdle == response = <<>>

PreprocessorIdle ==
    /\ preprocessor = <<>>
    /\ pp_result = <<>>
    /\ pp_fit_result = <<>>

MemoryIdle ==
    /\ horses = <<>>
    /\ conversations = <<>>
    /\ lock = <<>>
    /\ pc = <<>>
    /\ storage_file = [kind |-> "missing"]
    /\ tmp_file = [kind |-> "missing"]
    /\ backups = {}

ConfigIdle ==
    /\ config_file = [kind |-> "missing"]
    /\ environ = <<>>
    /\ loaded_config = <<>>

AdapterIdle ==
    /\ last_query = [n |-> 0, asked |-> <<>>]
    /\ reply = <<>>

SideIdle == ConfigIdle /\ AdapterIdle /\ recent = <<>>

ExtInit == DictIdle /\ LoaderIdle /\ ApiIdle /\ PreprocessorIdle /\ MemoryIdle /\ SideIdle

-----------------------------------------------------------------------------
\* Bounds of the model

MaxTicks   == 2     \* days the clock advances past a start date
MaxRecords == 2     \* medical records appended to the profile under study

-----------------------------------------------------------------------------
\* datetime.date, as far as the profile properties use it

Date(y, m, d) == [year |-> y, month |-> m, day |-> d]

Years == 2000..2030

IsLeap(y) == (y % 4 = 0 /\ y % 100 # 0) \/ (y % 400 = 0)

DaysInMonth(y, m) ==
    IF m = 2 THEN (IF IsLeap(y) THEN 29 ELSE 28)
    ELSE IF m \in {4, 6, 9, 11} THEN 30 ELSE 31

DaysBeforeYear(y) ==
    LET p == y - 1 IN p * 365 + (p \div 4) - (p \div 100) + (p \div 400)

RECURSIVE DaysBeforeMonth(_, _)
DaysBeforeMonth(y, m) ==
    IF m = 1 THEN 0 ELSE DaysBeforeMonth(y, m - 1) + DaysInMonth(y, m - 1)

\* date.toordinal()
toordinal(dt) == DaysBeforeYear(dt.year) + DaysBeforeMonth(dt.year, dt.month) + dt.day

\* date.fromordinal(n): the date whose ordinal is n
fromordinal(n) ==
    LET y == CHOOSE yy \in Years : DaysBeforeYear(yy) < n /\ n <= DaysBeforeYear(yy + 1)
        r == n - DaysBeforeYear(y)
        m == CHOOSE mm \in 1..12 :
                 DaysBeforeMonth(y, mm) < r /\ r <= DaysBeforeMonth(y, mm) + DaysInMonth(y, mm)
    IN  Date(y, m, r - DaysBeforeMonth(y, m))

\* Python tuple comparison (a1, a2) < (b1, b2)
TupleLt(a1, a2, b1, b2) == a1 < b1 \/ (a1 = b1 /\ a2 < b2)

\* date.__ge__: a >= b
DateGe(a, b) ==
    \/ a.year > b.year
    \/ a.year = b.year /\ a.month > b.month
    \/ a.year = b.year /\ a.month = b.month /\ a.day >= b.day

-----------------------------------------------------------------------------
\* HorseProfile derived properties

MedicalWindowDays == 90

age_mutant(born, tdy) ==
    tdy.year - born.year
        - (IF TupleLt(tdy.month, tdy.day, born.month, born.day)
              \/ (tdy.month = born.month /\ tdy.day = born.day) THEN 1 ELSE 0)

\* HorseProfile.age
age(born, tdy) ==
    tdy.year - born.year
        - (IF TupleLt(tdy.month, tdy.day, born.month, born.day) THEN 1 ELSE 0)

\* HorseProfile.has_medical_conditions
has_medical_conditions(history, tdy) ==
    IF history = <<>> THEN FALSE
    ELSE LET recent_date == fromordinal(toordinal(tdy) - MedicalWindowDays)
         IN  \E i \in 1..Len(history) : DateGe(history[i], recent_date)

-----------------------------------------------------------------------------
\* TrainingModel._recommend_duration / _recommend_intensity

MaxAge == 17    \* largest horse age drawn for the recommendation helpers

Activities == {"trot", "canter", "gallop", "jump", "dressage", "trail", "groundwork", "swim"}
Ages       == (0 - 1)..MaxAge

Max(a, b) == IF a >= b THEN a ELSE b

\* base_durations.get(activity, 30)
base_durations(activity) ==
    CASE activity = "trot"       -> 30
      [] activity = "canter"     -> 20
      [] activity = "gallop"     -> 15
      [] activity = "jump"       -> 25
      [] activity = "dressage"   -> 40
      [] activity = "trail"      -> 45
      [] activity = "groundwork" -> 35
      [] OTHER                   -> 30

\* round(duration / 5) * 5 for an integer duration: duration / 5 has fractional part
\* 0, .2, .4, .6 or .8, so round() never meets a tie
round5(duration) ==
    LET q == duration \div 5
        r == duration % 5
    IN  IF r <= 2 THEN q * 5 ELSE (q + 1) * 5

recommend_duration_mutant(horse_age, horse_medical, activity) ==
    LET d0 == base_durations(activity)
        d1 == IF horse_age < 3 THEN Max(15, d0 - 15)
              ELSE IF horse_age > 15 THEN Max(15, d0 - 10)
              ELSE d0
        d2 == IF horse_medical THEN d1 - 10 ELSE d1
    IN  round5(d2)

recommend_duration_elif_mutant(horse_age, horse_medical, activity) ==
    LET d0 == base_durations(activity)
        d1 == IF horse_age < 3 THEN Max(15, d0 - 15)
              ELSE IF horse_age > 15 THEN Max(15, d0 - 15)
              ELSE d0
        d2 == IF horse_medical THEN Max(15, d1 - 10) ELSE d1
    IN  round5(d2)

\* TrainingModel._recommend_duration
recommend_duration(horse_age, horse_medical, activity) ==
    LET d0 == base_durations(activity)
        d1 == IF horse_age < 3 THEN Max(15, d0 - 15)
              ELSE IF horse_age > 15 THEN Max(15, d0 - 10)
              ELSE d0
        d2 == IF horse_medical THEN Max(15, d1 - 10) ELSE d1
    IN  round5(d2)

\* base intensity by activity type
base_intensity(activity) ==
    IF activity \in {"gallop", "jump"} THEN "high"
    ELSE IF activity \in {"canter", "dressage", "trail"} THEN "medium"
    ELSE "low"

recommend_intensity_mutant(horse_age, horse_medical, activity) ==
    LET base == base_intensity(activity)
    IN  IF (horse_age < 3 \/ horse_age > 15) /\ base = "high" THEN "medium"
        ELSE IF (horse_age < 3 \/ horse_age > 15) /\ base = "medium" THEN "high"
        ELSE IF horse_medical /\ base = "high" THEN "medium"
        ELSE IF horse_medical /\ base = "medium" THEN "low"
        ELSE base

\* TrainingModel._recommend_intensity: each adjustment returns from the function
recommend_intensity(horse_age, horse_medical, activity) ==
    LET base == base_intensity(activity)
    IN  IF (horse_age < 3 \/ horse_age > 15) /\ base = "high" THEN "medium"
        ELSE IF (horse_age < 3 \/ horse_age > 15) /\ base = "medium" THEN "low"
        ELSE IF horse_medical /\ base = "high" THEN "medium"
        ELSE IF horse_medical /\ base = "medium" THEN "low"
        ELSE base

-----------------------------------------------------------------------------
\* TrainingModel: configuration, classifier output and recommendation assembly

MaxPerHorse == 3    \* largest configured recommendations.max_per_horse

\* Probabilities and confidences are fixed-point numbers in units of 0.0001
One == 10 * 1000

ModelTypes     == {"random_forest", "svm"}
MinConfidences == {1004, 7000}              \* 0.1004, 0.7
Configs ==
    [model_type : ModelTypes, max_per_horse : 0..MaxPerHorse, min_confidence : MinConfidences]

\* Activity labels of the training records, and their order under numpy's sort of
\* the class labels (classes_ is sorted)
TrainActivities  == {"canter", "gallop", "trot"}
SortedActivities ==
    <<"canter", "dressage", "gallop", "groundwork", "jump", "swim", "trail", "trot">>
SortedClasses_mutant(S) == SelectSeq(SortedActivities, LAMBDA a : a \in TrainActivities)

SortedClasses(S) == SelectSeq(SortedActivities, LAMBDA a : a \in S)

\* Values a class probability takes in the model, and the distributions over k classes
ProbGrid == {500, 1004, 2500, 5000, 7000, 8996, One}

RECURSIVE SumSeq(_)
SumSeq(s) == IF s = <<>> THEN 0 ELSE Head(s) + SumSeq(Tail(s))

Dists == [k \in 1..Cardinality(TrainActivities) |->
             {p \in [1..k -> ProbGrid] : SumSeq(p) = One}]

\* An unset attribute (None) and the estimator objects train assigns
NoneObj == [is_none |-> TRUE, fitted |-> FALSE, classes |-> <<>>]
Estimator(is_fitted, cls) == [is_none |-> FALSE, fitted |-> is_fitted, classes |-> cls]

\* The profiles recommendation requests are made for
Horse1 == [id |-> "h1", birth_date |-> Date(2022, 6, 1),
           medical_history |-> <<Date(2024, 4, 1)>>]
Horse2 == [id |-> "h2", birth_date |-> Date(2015, 5, 12), medical_history |-> <<>>]
ProfileLists == {<<>>, <<Horse1>>, <<Horse2>>, <<Horse1, Horse2>>}

\* round(float(confidence), 3)
round3(p) ==
    LET q == p \div 10
        r == p % 10
    IN  IF r < 5 THEN q * 10
        ELSE IF r > 5 THEN (q + 1) * 10
        ELSE IF q % 2 = 0 THEN q * 10 ELSE (q + 1) * 10

\* zip(activity_classes, activity_probs[i])
activity_scores(classes, probs) ==
    [j \in 1..Len(classes) |-> [activity |-> classes[j], prob |-> probs[j]]]

RECURSIVE InsertDesc_mutant(_, _)
InsertDesc_mutant(sorted, x) ==
    IF sorted = <<>> THEN <<x>>
    ELSE IF Head(sorted).prob > x.prob
    THEN <<Head(sorted)>> \o InsertDesc_mutant(Tail(sorted), x)
    ELSE <<x>> \o sorted

\* list.sort(key=lambda x: x[1], reverse=True): stable, equal keys keep their order
RECURSIVE InsertDesc(_, _)
InsertDesc(sorted, x) ==
    IF sorted = <<>> THEN <<x>>
    ELSE IF Head(sorted).prob >= x.prob THEN <<Head(sorted)>> \o InsertDesc(Tail(sorted), x)
    ELSE <<x>> \o sorted

SortDesc_mutant(s) == s

RECURSIVE SortDesc(_)
SortDesc(s) ==
    IF s = <<>> THEN <<>>
    ELSE InsertDesc(SortDesc(SubSeq(s, 1, Len(s) - 1)), s[Len(s)])

\* activity_scores[:max_recommendations] for max_recommendations >= 0
SliceTo(s, n) == SubSeq(s, 1, IF n < Len(s) THEN n ELSE Len(s))

\* profile_map = {horse.id: horse ...}[horse_id]: the last profile carrying the id
profile_map(profiles, horse_id) ==
    profiles[CHOOSE i \in 1..Len(profiles) :
                 /\ profiles[i].id = horse_id
                 /\ \A j \in (i + 1)..Len(profiles) : profiles[j].id # horse_id]

recommendation(horse, horse_age, horse_medical, score) ==
    [horse_id   |-> horse.id,
     activity_type |-> score.activity,
     confidence |-> round3(score.prob),
     recommended_duration  |-> recommend_duration(horse_age, horse_medical, score.activity),
     recommended_intensity |-> recommend_intensity(horse_age, horse_medical, score.activity)]

horse_recommendations_mutant(horse, classes, probs, cfg, tdy) ==
    LET top  == SortDesc(activity_scores(classes, probs))
        kept == SelectSeq(top, LAMBDA sc : sc.prob >= cfg.min_confidence)
        horse_age     == age(horse.birth_date, tdy)
        horse_medical == has_medical_conditions(horse.medical_history, tdy)
    IN  [j \in 1..Len(kept) |-> recommendation(horse, horse_age, horse_medical, kept[j])]

\* body of the per-horse loop of generate_recommendations
horse_recommendations(horse, classes, probs, cfg, tdy) ==
    LET top  == SliceTo(SortDesc(activity_scores(classes, probs)), cfg.max_per_horse)
        kept == SelectSeq(top, LAMBDA sc : sc.prob >= cfg.min_confidence)
        horse_age     == age(horse.birth_date, tdy)
        horse_medical == has_medical_conditions(horse.medical_history, tdy)
    IN  [j \in 1..Len(kept) |-> recommendation(horse, horse_age, horse_medical, kept[j])]

\* the loop over horse_ids: recommendations.extend(horse_recommendations)
RECURSIVE all_recommendations(_, _, _, _, _, _)
all_recommendations(profiles, i, classes, activity_probs, cfg, tdy) ==
    IF i > Len(profiles) THEN <<>>
    ELSE horse_recommendations(profile_map(profiles, profiles[i].id), classes,
                               activity_probs[i], cfg, tdy)
         \o all_recommendations(profiles, i + 1, classes, activity_probs, cfg, tdy)

-----------------------------------------------------------------------------
\* TrainingModel operations

Outcome(op, status, profiles, probs, recs) ==
    [op |-> op, status |-> status, profiles |-> profiles, probs |-> probs, recs |-> recs]

\* The profiles and the training records train is called with
TrainProfileLists == {<<Horse1, Horse2>>, <<Horse1, Horse1>>}

TrainRecord(horse_id, activity_type) == [horse_id |-> horse_id, activity_type |-> activity_type]

TrainRecordLists ==
    {<<TrainRecord("h1", "trot")>>,
     <<TrainRecord("h1", "canter"), TrainRecord("h3", "trot")>>,
     <<TrainRecord("h1", "canter"), TrainRecord("h1", "gallop"), TrainRecord("h2", "trot")>>}

\* pd.merge(X, y, on='horse_id'): a row for every pair of a row of X and a row
\* of y with the same horse_id, in the order of X and then of y
merge(X, y) ==
    SelectSeq([k \in 1..(Len(X) * Len(y)) |->
                  LET p == ((k - 1) \div Len(y)) + 1
                      r == ((k - 1) % Len(y)) + 1
                  IN  [horse_id |-> IF X[p].id = y[r].horse_id THEN X[p].id ELSE "",
                       profile |-> p, record |-> r, activity_type |-> y[r].activity_type]],
              LAMBDA row : row.horse_id # "")

\* train returned: merged is the merged frame, joined holds its activity_type
\* values, fold those of the rows train_test_split put in the training part
TrainOutcome(profiles, training_data, merged, fold) ==
    [op |-> "train", status |-> "ok", profiles |-> profiles, probs |-> <<>>, recs |-> <<>>,
     training_data |-> training_data, merged |-> merged,
     joined |-> {merged[k].activity_type : k \in 1..Len(merged)}, fold |-> fold]

create_feature_pipeline_mutant == NoneObj

\* _create_feature_pipeline: a new, not yet fitted ColumnTransformer
create_feature_pipeline == Estimator(FALSE, <<>>)

\* pipeline after feature_pipeline.fit_transform(X_train)
fitted_pipeline == [create_feature_pipeline EXCEPT !.fitted = TRUE]

not_ready_mutant(m, fp) == m.is_none /\ fp.is_none

\* readiness check of generate_recommendations
not_ready(m, fp) == m.is_none \/ fp.is_none

\* train: building or merging the frames raises before any attribute is assigned
TrainMergeError ==
    /\ result' = Outcome("train", "KeyError", <<>>, <<>>, <<>>)
    /\ UNCHANGED <<model, feature_pipeline, performance_predictor>>
    /\ UNCHANGED <<config, profileVars, pureVars, extVars>>

\* train: the pipeline is assigned, then train_test_split / fit_transform raises
TrainSplitError ==
    /\ feature_pipeline' = create_feature_pipeline
    /\ result' = Outcome("train", "ValueError", <<>>, <<>>, <<>>)
    /\ UNCHANGED <<model, performance_predictor>>
    /\ UNCHANGED <<config, profileVars, pureVars, extVars>>

\* train: the configured model type is not 'random_forest'
TrainUnsupported ==
    /\ config.model_type # "random_forest"
    /\ feature_pipeline' = fitted_pipeline
    /\ result' = Outcome("train", "unsupported", <<>>, <<>>, <<>>)
    /\ UNCHANGED <<model, performance_predictor>>
    /\ UNCHANGED <<config, profileVars, pureVars, extVars>>

\* train: RandomForestClassifier is assigned, then its fit raises
TrainClassifierError ==
    /\ config.model_type = "random_forest"
    /\ feature_pipeline' = fitted_pipeline
    /\ model' = Estimator(FALSE, <<>>)
    /\ result' = Outcome("train", "fit_error", <<>>, <<>>, <<>>)
    /\ UNCHANGED performance_predictor
    /\ UNCHANGED <<config, profileVars, pureVars, extVars>>

\* train: the classifier is fitted, the regressor is assigned, then its fit raises
TrainPredictorError ==
    /\ config.model_type = "random_forest"
    /\ \E joined \in SUBSET TrainActivities \ {{}} : \E fold \in SUBSET joined \ {{}} :
           model' = Estimator(TRUE, SortedClasses(fold))
    /\ feature_pipeline' = fitted_pipeline
    /\ performance_predictor' = Estimator(FALSE, <<>>)
    /\ result' = Outcome("train", "fit_error", <<>>, <<>>, <<>>)
    /\ UNCHANGED <<config, profileVars, pureVars, extVars>>

\* train returns normally: the merged frame has rows, and any non-empty part
\* of them can be the training part of the split
TrainOk ==
    /\ config.model_type = "random_forest"
    /\ \E profiles \in TrainProfileLists, training_data \in TrainRecordLists :
       \E merged \in {merge(profiles, training_data)} :
       \E train_rows \in SUBSET (1..Len(merged)) \ {{}} :
       \E fold \in {{merged[k].activity_type : k \in train_rows}} :
           /\ model' = Estimator(TRUE, SortedClasses(fold))
           /\ result' = TrainOutcome(profiles, training_data, merged, fold)
    /\ feature_pipeline' = fitted_pipeline
    /\ performance_predictor' = Estimator(TRUE, <<>>)
    /\ UNCHANGED <<config, profileVars, pureVars, extVars>>

\* generate_recommendations(horse_profiles)
GenerateRecommendations ==
    /\ \E profiles \in ProfileLists :
          IF not_ready(model, feature_pipeline)
          THEN result' = Outcome("generate", "not_trained", profiles, <<>>, <<>>)
          ELSE IF profiles = <<>>
          THEN \* X['horse_id'] on a frame without columns
               result' = Outcome("generate", "KeyError", profiles, <<>>, <<>>)
          ELSE IF ~feature_pipeline.fitted \/ ~model.fitted
          THEN \* transform / predict_proba of an estimator that was never fitted
               result' = Outcome("generate", "NotFittedError", profiles, <<>>, <<>>)
          ELSE \E activity_probs \in [1..Len(profiles) -> Dists[Len(model.classes)]] :
               result' = Outcome("generate", "ok", profiles, activity_probs,
                                 all_recommendations(profiles, 1, model.classes,
                                                     activity_probs, config, today))
    /\ UNCHANGED <<model, feature_pipeline, performance_predictor>>
    /\ UNCHANGED <<config, profileVars, pureVars, extVars>>

RunDate == Date(2024, 5, 11)

\* TrainingModel.__init__
Init ==
    /\ ExtInit
    /\ config \in Configs
    /\ model = NoneObj
    /\ feature_pipeline = NoneObj
    /\ performance_predictor = NoneObj
    /\ result = Outcome("init", "ok", <<>>, <<>>, <<>>)
    /\ today = RunDate
    /\ birth_date = Horse2.birth_date
    /\ medical_history = <<>>
    /\ rec_activity = "trot"
    /\ rec_age = 0
    /\ rec_medical = FALSE
    /\ rec_duration = <<>>
    /\ rec_intensity = <<>>

Next ==
    \/ TrainMergeError
    \/ TrainSplitError
    \/ TrainUnsupported
    \/ TrainClassifierError
    \/ TrainPredictorError
    \/ TrainOk
    \/ GenerateRecommendations

Spec == Init /\ [][Next]_vars

-----------------------------------------------------------------------------
\* The recommendation helpers applied to every activity, age and medical flag

PureInit ==
    /\ ExtInit
    /\ rec_activity \in Activities
    /\ rec_age \in Ages
    /\ rec_medical \in BOOLEAN
    /\ rec_duration = <<>>
    /\ rec_intensity = <<>>
    /\ config = [model_type |-> "random_forest", max_per_horse |-> 0, min_confidence |-> 1000]
    /\ model = NoneObj
    /\ feature_pipeline = NoneObj
    /\ performance_predictor = NoneObj
    /\ result = Outcome("init", "ok", <<>>, <<>>, <<>>)
    /\ today = RunDate
    /\ birth_date = Horse2.birth_date
    /\ medical_history = <<>>

RecommendDuration ==
    /\ rec_duration' = <<recommend_duration(rec_age, rec_medical, rec_activity)>>
    /\ UNCHANGED <<rec_activity, rec_age, rec_medical, rec_intensity, profileVars, modelVars, extVars>>

RecommendIntensity ==
    /\ rec_intensity' = <<recommend_intensity(rec_age, rec_medical, rec_activity)>>
    /\ UNCHANGED <<rec_activity, rec_age, rec_medical, rec_duration, profileVars, modelVars, extVars>>

PureNext == RecommendDuration \/ RecommendIntensity

PureSpec == PureInit /\ [][PureNext]_vars

-----------------------------------------------------------------------------
\* A horse profile observed while the calendar advances and records are appended

StartDates  == {Date(2024, 5, 10), Date(2023, 2, 27), Date(2023, 12, 30)}
BirthDates  == {Date(2015, 5, 12), Date(2016, 2, 29), Date(2008, 12, 31),
                Date(2022, 1, 1), Date(2024, 5, 11)}
RecordDates == {Date(2024, 2, 10), Date(2024, 2, 11), Date(2024, 2, 12),
                Date(2024, 5, 11), Date(2024, 6, 1),
                Date(2022, 11, 29), Date(2023, 10, 2)}

ProfileInit ==
    /\ ExtInit
    /\ today \in StartDates
    /\ birth_date \in BirthDates
    /\ medical_history = <<>>
    /\ rec_activity = "trot"
    /\ rec_age = 0
    /\ rec_medical = FALSE
    /\ rec_duration = <<>>
    /\ rec_intensity = <<>>
    /\ config = [model_type |-> "random_forest", max_per_horse |-> 0, min_confidence |-> 1000]
    /\ model = NoneObj
    /\ feature_pipeline = NoneObj
    /\ performance_predictor = NoneObj
    /\ result = Outcome("init", "ok", <<>>, <<>>, <<>>)

\* date.today() returns the next day
ClockTick ==
    /\ \E s \in StartDates :
           /\ toordinal(today) >= toordinal(s)
           /\ toordinal(today) < toordinal(s) + MaxTicks
    /\ today' = fromordinal(toordinal(today) + 1)
    /\ UNCHANGED <<birth_date, medical_history, pureVars, modelVars, extVars>>

\* profile.medical_history.append(MedicalRecord(date=...))
AppendMedicalRecord ==
    /\ Len(medical_history) < MaxRecords
    /\ \E d \in RecordDates : medical_history' = Append(medical_history, d)
    /\ UNCHANGED <<today, birth_date, pureVars, modelVars, extVars>>

ProfileNext == ClockTick \/ AppendMedicalRecord

ProfileSpec == ProfileInit /\ [][ProfileNext]_vars

-----------------------------------------------------------------------------
\* Properties of TrainingModel (checked under Spec)

RecsOf(horse_id) == SelectSeq(result.recs, LAMBDA r : r.horse_id = horse_id)

GenerateReturned == result.op = "generate" /\ result.status = "ok"

C2_Original ==
    GenerateReturned =>
        \A i \in 1..Len(result.profiles) :
            LET rs == RecsOf(result.profiles[i].id)
            IN  /\ Len(rs) <= config.max_per_horse
                /\ \A j \in 1..Len(rs) : rs[j].confidence >= config.min_confidence
                /\ \A j \in 1..(Len(rs) - 1) : rs[j].confidence >= rs[j + 1].confidence

\* C2 amended: every horse of the input gets at most max_per_horse
\* recommendations; each is for a class whose probability is >= min_confidence and
\* carries that probability rounded to 3 decimals as its confidence, so the
\* confidence is >= min_confidence rounded to 3 decimals; the recommendations of
\* one horse are in descending order of confidence.
C2_Amended ==
    GenerateReturned =>
        \A i \in 1..Len(result.profiles) :
            LET rs == RecsOf(result.profiles[i].id)
            IN  /\ Len(rs) <= config.max_per_horse
                /\ \A j \in 1..Len(rs) :
                       /\ rs[j].confidence >= round3(config.min_confidence)
                       /\ \E c \in 1..Len(model.classes) :
                              /\ model.classes[c] = rs[j].activity_type
                              /\ result.probs[i][c] >= config.min_confidence
                              /\ rs[j].confidence = round3(result.probs[i][c])
                /\ \A j \in 1..(Len(rs) - 1) : rs[j].confidence >= rs[j + 1].confidence

C2_Witness ==
    /\ GenerateReturned
    /\ model.fitted /\ feature_pipeline.fitted /\ performance_predictor.fitted
    /\ Len(result.profiles) = 2
    /\ Len(model.classes) > config.max_per_horse
    /\ \E i \in 1..2 :
           LET rs == RecsOf(result.profiles[i].id)
           IN  /\ Len(rs) = config.max_per_horse
               /\ Len(rs) >= 2
               /\ rs[1].confidence > rs[2].confidence
    /\ \E i \in 1..2 : \E c \in 1..Len(model.classes) :
           result.probs[i][c] < config.min_confidence

\* C7 as stated: a train call that fails on an unsupported model type leaves
\* model, feature_pipeline and performance_predictor exactly as they were.
C7_NoPartialState ==
    [][(result'.op = "train" /\ result'.status = "unsupported")
           => UNCHANGED <<model, feature_pipeline, performance_predictor>>]_vars

Trained == ~(model.is_none \/ feature_pipeline.is_none)

\* C8: a new instance is untrained; a successful train makes it trained; once
\* trained, every train and generate_recommendations call leaves it trained,
\* generate_recommendations changes no model attribute, and no
\* generate_recommendations call made in the trained state fails the readiness check.
C8_TwoStateMachine ==
    /\ ~Trained
    /\ [][/\ Trained => Trained'
          /\ (result'.op = "train" /\ result'.status = "ok") => Trained'
          /\ result'.op = "generate"
                 => UNCHANGED <<model, feature_pipeline, performance_predictor>>
          /\ (Trained /\ result'.op = "generate") => result'.status # "not_trained"
       ]_vars

\* a recommendation request that passes the readiness check after a retrain of a
\* trained model failed in the split
C8_Witness ==
    /\ Trained
    /\ model.fitted /\ ~feature_pipeline.fitted
    /\ result.op = "generate"
    /\ result.status = "NotFittedError"

-----------------------------------------------------------------------------
\* Properties of the recommendation helpers (checked under PureSpec)

\* C3: the recommended duration is a multiple of 5 and at least 15.
C3_DurationMultipleOf5AtLeast15 ==
    rec_duration # <<>> => (rec_duration[1] % 5 = 0 /\ rec_duration[1] >= 15)

C3_Witness ==
    /\ rec_duration = <<15>>
    /\ rec_activity = "canter" /\ rec_age < 3 /\ rec_medical

IntensityLevel(x) == CASE x = "low" -> 1 [] x = "medium" -> 2 [] x = "high" -> 3

StepDown(x) == IF x = "high" THEN "medium" ELSE "low"

StatedBaseIntensity(activity) ==
    CASE activity \in {"gallop", "jump"}              -> "high"
      [] activity \in {"canter", "dressage", "trail"} -> "medium"
      [] OTHER                                        -> "low"

AgeOutOfRange == rec_age < 3 \/ rec_age > 15

\* C4 as stated: with age < 3 or age > 15 and has_medical_conditions true, the
\* intensity is two levels below the base intensity, floored at low.
C4_StepDownsCompound ==
    (rec_intensity # <<>> /\ AgeOutOfRange /\ rec_medical)
        => rec_intensity[1] = StepDown(StepDown(StatedBaseIntensity(rec_activity)))

\* C5: the recommended intensity is never higher than the activity's base
\* intensity, and equals it when 3 <= age <= 15 and there is no medical condition.
C5_IntensityAtMostBase ==
    rec_intensity # <<>> =>
        /\ IntensityLevel(rec_intensity[1]) <= IntensityLevel(StatedBaseIntensity(rec_activity))
        /\ (~AgeOutOfRange /\ ~rec_medical)
               => rec_intensity[1] = StatedBaseIntensity(rec_activity)

C5_Witness ==
    /\ rec_intensity = <<"low">>
    /\ rec_activity = "dressage" /\ rec_age > 15 /\ ~rec_medical

StatedBaseDuration(activity) ==
    CASE activity = "trot" -> 30 [] activity = "canter" -> 20 [] activity = "gallop" -> 15
      [] activity = "jump" -> 25 [] activity = "dressage" -> 40 [] activity = "trail" -> 45
      [] activity = "groundwork" -> 35 [] OTHER -> 30

Floor15(x) == IF x < 15 THEN 15 ELSE x

Dist(a, b) == IF a >= b THEN a - b ELSE b - a

NearestMultipleOf5(x) ==
    CHOOSE k \in {5 * n : n \in 0..20} : \A n \in 0..20 : Dist(k, x) <= Dist(5 * n, x)

ReferenceDuration(activity, horse_age, medical) ==
    LET base     == StatedBaseDuration(activity)
        afterAge == IF horse_age < 3 THEN Floor15(base - 15)
                    ELSE IF horse_age > 15 THEN Floor15(base - 10)
                    ELSE base
        afterMed == IF medical THEN Floor15(afterAge - 10) ELSE afterAge
    IN  NearestMultipleOf5(afterMed)

\* C6: _recommend_duration equals the reference computation: base duration from
\* the table, minus 15 if age < 3, otherwise minus 10 if age > 15, floored at 15,
\* minus a further 10 with a medical condition, floored at 15, rounded to the
\* nearest multiple of 5.
C6_DurationMatchesReference ==
    rec_duration # <<>>
        => rec_duration[1] = ReferenceDuration(rec_activity, rec_age, rec_medical)

C6_Witness ==
    /\ rec_duration = <<20>>
    /\ rec_activity = "dressage" /\ rec_age > 15 /\ rec_medical

-----------------------------------------------------------------------------
\* Properties of HorseProfile (checked under ProfileSpec)

\* C9: age is the number of whole years from birth_date to today: the year
\* difference, less one when today's (month, day) is before the birth (month, day);
\* born 2015-05-12 gives 8 on 2024-05-11 and 9 on 2024-05-12.
C9_AgeWholeYears ==
    LET a == age(birth_date, today)
        beforeBirthday ==
            today.month * 100 + today.day < birth_date.month * 100 + birth_date.day
    IN  /\ a = today.year - birth_date.year - (IF beforeBirthday THEN 1 ELSE 0)
        /\ (birth_date = Date(2015, 5, 12) /\ today = Date(2024, 5, 11)) => a = 8
        /\ (birth_date = Date(2015, 5, 12) /\ today = Date(2024, 5, 12)) => a = 9

C9_Witness ==
    /\ birth_date = Date(2015, 5, 12)
    /\ today = Date(2024, 5, 12)
    /\ age(birth_date, today) = 9

\* C10 as stated: has_medical_conditions is true exactly when some medical record
\* is dated within the inclusive window [today - 90 days, today].
C10_InclusiveWindow ==
    has_medical_conditions(medical_history, today)
        <=> \E i \in 1..Len(medical_history) :
                /\ toordinal(medical_history[i]) >= toordinal(today) - 90
                /\ toordinal(medical_history[i]) <= toordinal(today)

-----------------------------------------------------------------------------
\* The TrainingModel, helper and clock variables while another component is
\* under study: a model as constructed, no helper call, a fixed calendar day

CoreInit ==
    /\ config = [model_type |-> "random_forest", max_per_horse |-> 0, min_confidence |-> 1000]
    /\ model = NoneObj
    /\ feature_pipeline = NoneObj
    /\ performance_predictor = NoneObj
    /\ result = Outcome("init", "ok", <<>>, <<>>, <<>>)
    /\ today = RunDate
    /\ birth_date = Horse2.birth_date
    /\ medical_history = <<>>
    /\ rec_activity = "trot"
    /\ rec_age = 0
    /\ rec_medical = FALSE
    /\ rec_duration = <<>>
    /\ rec_intensity = <<>>

-----------------------------------------------------------------------------
\* HorseProfile.to_dict / HorseProfile.from_dict
\* A str is a sequence of one-character strings; None is <<>> and an optional
\* text is <<text>>; a dict is a function from its keys; floats are kept in tenths.

MaxHistory == 2     \* entries appended to each history of the profile being serialised

DigitChars == <<"0", "1", "2", "3", "4", "5", "6", "7", "8", "9">>

\* the digit a character stands for
DigitValue ==
    [c \in {DigitChars[n] : n \in 1..Len(DigitChars)} |->
        (CHOOSE n \in 1..Len(DigitChars) : DigitChars[n] = c) - 1]

Digit(n) == DigitChars[n + 1]

\* date.isoformat(): YYYY-MM-DD
isoformat(dt) ==
    <<Digit(dt.year \div 1000), Digit((dt.year \div 100) % 10),
      Digit((dt.year \div 10) % 10), Digit(dt.year % 10), "-",
      Digit(dt.month \div 10), Digit(dt.month % 10), "-",
      Digit(dt.day \div 10), Digit(dt.day % 10)>>

IsoLength == Len(isoformat(Date(1, 1, 1)))

\* date.fromisoformat(s): the date, or ValueError (ok = FALSE)
fromisoformat(s) ==
    LET bad == [ok |-> FALSE, value |-> Date(1, 1, 1)]
    IN  IF Len(s) # IsoLength THEN bad
        ELSE IF \E i \in 1..Len(s) :
                    IF i \in {5, 8} THEN s[i] # "-" ELSE s[i] \notin DOMAIN DigitValue THEN bad
        ELSE LET y == DigitValue[s[1]] * 1000 + DigitValue[s[2]] * 100
                          + DigitValue[s[3]] * 10 + DigitValue[s[4]]
                 m == DigitValue[s[6]] * 10 + DigitValue[s[7]]
                 d == DigitValue[s[9]] * 10 + DigitValue[s[10]]
             IN  IF y < 1 \/ m \notin 1..12 THEN bad
                 ELSE IF d < 1 \/ d > DaysInMonth(y, m) THEN bad
                 ELSE [ok |-> TRUE, value |-> Date(y, m, d)]

\* dataclass constructors
MedicalRecord(dt, condition, treatment, notes) ==
    [date |-> dt, condition |-> condition, treatment |-> treatment, notes |-> notes]

TrainingSession(dt, activity_type, duration_minutes, intensity, performance_rating, notes) ==
    [date |-> dt, activity_type |-> activity_type, duration_minutes |-> duration_minutes,
     intensity |-> intensity, performance_rating |-> performance_rating, notes |-> notes]

\* dict.get(key, default)
Get(d, key, default) == IF key \in DOMAIN d THEN d[key] ELSE default

\* the entries of to_dict's 'medical_history' list
medical_to_dict(record) ==
    [date |-> isoformat(record.date), condition |-> record.condition,
     treatment |-> record.treatment, notes |-> record.notes]

\* the entries of to_dict's 'training_history' list
session_to_dict(session) ==
    [date |-> isoformat(session.date), activity_type |-> session.activity_type,
     duration_minutes |-> session.duration_minutes, intensity |-> session.intensity,
     performance_rating |-> session.performance_rating, notes |-> session.notes]

RECURSIVE dicts_of(_, _)
\* the list comprehensions of to_dict: one dict per record, in order
dicts_of(kind, history) ==
    IF history = <<>> THEN <<>>
    ELSE <<IF kind = "medical" THEN medical_to_dict(Head(history))
           ELSE session_to_dict(Head(history))>> \o dicts_of(kind, Tail(history))

\* HorseProfile.to_dict
to_dict(p, tdy) ==
    [id |-> p.id, name |-> p.name, breed |-> p.breed,
     birth_date |-> isoformat(p.birth_date),
     age |-> age(p.birth_date, tdy),
     sex |-> p.sex, color |-> p.color,
     height_hands |-> p.height_hands, weight_kg |-> p.weight_kg,
     lineage |-> p.lineage, dietary_restrictions |-> p.dietary_restrictions,
     medical_history |-> dicts_of("medical", p.medical_history),
     training_history |-> dicts_of("training", p.training_history)]

Raised(exception) == [status |-> exception, value |-> <<>>]

Returned(v) == [status |-> "ok", value |-> v]

\* MedicalRecord(date=date.fromisoformat(record['date']), ...)
medical_from_dict(record) ==
    IF "date" \notin DOMAIN record THEN Raised("KeyError")
    ELSE LET parsed == fromisoformat(record["date"])
         IN  IF ~parsed.ok THEN Raised("ValueError")
             ELSE IF \E k \in {"condition", "treatment"} : k \notin DOMAIN record
             THEN Raised("KeyError")
             ELSE Returned(MedicalRecord(parsed.value, record["condition"],
                                         record["treatment"], Get(record, "notes", <<>>)))

session_from_dict_mutant(session) ==
    Returned(TrainingSession(fromisoformat(session["date"]).value, session["activity_type"],
                             session["duration_minutes"], session["intensity"],
                             session["performance_rating"], <<>>))

\* TrainingSession(date=date.fromisoformat(session['date']), ...)
session_from_dict(session) ==
    IF "date" \notin DOMAIN session THEN Raised("KeyError")
    ELSE LET parsed == fromisoformat(session["date"])
         IN  IF ~parsed.ok THEN Raised("ValueError")
             ELSE IF \E k \in {"activity_type", "duration_minutes", "intensity",
                                "performance_rating"} : k \notin DOMAIN session
             THEN Raised("KeyError")
             ELSE Returned(TrainingSession(parsed.value, session["activity_type"],
                                           session["duration_minutes"], session["intensity"],
                                           session["performance_rating"],
                                           Get(session, "notes", <<>>)))

RECURSIVE records_from(_, _)
\* the loops of from_dict: one record per dict, in order, up to the first dict
\* that raises (the outcome is the one element of a set built from the outcome
\* of the first dict and the outcome of the rest)
records_from(kind, dicts) ==
    IF dicts = <<>> THEN Returned(<<>>)
    ELSE CHOOSE outcome \in
             {IF first.status # "ok" THEN first
              ELSE IF rest.status # "ok" THEN rest
              ELSE Returned(<<first.value>> \o rest.value) :
                  first \in {IF kind = "medical" THEN medical_from_dict(Head(dicts))
                             ELSE session_from_dict(Head(dicts))},
                  rest \in {records_from(kind, Tail(dicts))}} : TRUE

RequiredKeys == {"id", "name", "breed", "sex", "color", "height_hands", "weight_kg"}

\* HorseProfile.from_dict: the profile, or the exception of the first failing step
from_dict(data) ==
    IF "birth_date" \notin DOMAIN data THEN Raised("KeyError")
    ELSE IF ~fromisoformat(data["birth_date"]).ok THEN Raised("ValueError")
    ELSE IF \E k \in RequiredKeys : k \notin DOMAIN data THEN Raised("KeyError")
    ELSE LET birth    == fromisoformat(data["birth_date"])
             records  == records_from("medical", Get(data, "medical_history", <<>>))
             sessions == records_from("training", Get(data, "training_history", <<>>))
         IN  IF records.status # "ok" THEN records
             ELSE IF sessions.status # "ok" THEN sessions
             ELSE Returned(
                 [id |-> data["id"], name |-> data["name"], breed |-> data["breed"],
                  birth_date |-> birth.value,
                  sex |-> data["sex"], color |-> data["color"],
                  height_hands |-> data["height_hands"], weight_kg |-> data["weight_kg"],
                  lineage |-> Get(data, "lineage", <<>>),
                  dietary_restrictions |-> Get(data, "dietary_restrictions", <<>>),
                  medical_history |-> records.value,
                  training_history |-> sessions.value])

\* HorseProfile(...) with empty histories
NewProfile(id, born, lineage) ==
    [id |-> id, name |-> "Thunder", breed |-> "Thoroughbred", birth_date |-> born,
     sex |-> "gelding", color |-> "bay", height_hands |-> 162, weight_kg |-> 5400,
     lineage |-> lineage, dietary_restrictions |-> <<"no alfalfa">>,
     medical_history |-> <<>>, training_history |-> <<>>]

DictProfiles ==
    {NewProfile("h1", born, lineage) :
        born \in {Date(2016, 2, 29), Date(2008, 12, 31)},
        lineage \in {<<>>, [sire |-> "Storm"]}}

MedicalPool ==
    {MedicalRecord(Date(2024, 2, 10), "colic", "rest", <<>>),
     MedicalRecord(Date(2023, 10, 2), "lameness", "farrier", <<"left fore">>)}

SessionPool ==
    {TrainingSession(Date(2024, 5, 1), "trot", 30, "low", 7, <<>>),
     TrainingSession(Date(2024, 4, 30), "jump", 25, "high", 4, <<"refused twice">>)}

DictInit ==
    /\ CoreInit /\ SideIdle /\ LoaderIdle /\ ApiIdle /\ PreprocessorIdle /\ MemoryIdle
    /\ profile \in DictProfiles
    /\ profile_dict = <<>>
    /\ restored = <<>>

\* profile.medical_history.append(record), before the profile is serialised
DictAppendMedical ==
    /\ profile_dict = <<>>
    /\ Len(profile.medical_history) < MaxHistory
    /\ \E record \in MedicalPool :
           profile' = [profile EXCEPT !.medical_history = Append(@, record)]
    /\ UNCHANGED <<profile_dict, restored, coreVars, sideVars, loaderVars, apiVars, ppVars, memVars>>

\* profile.training_history.append(session), before the profile is serialised
DictAppendSession ==
    /\ profile_dict = <<>>
    /\ Len(profile.training_history) < MaxHistory
    /\ \E session \in SessionPool :
           profile' = [profile EXCEPT !.training_history = Append(@, session)]
    /\ UNCHANGED <<profile_dict, restored, coreVars, sideVars, loaderVars, apiVars, ppVars, memVars>>

\* d = profile.to_dict()
ToDict ==
    /\ profile_dict = <<>>
    /\ profile_dict' = <<to_dict(profile, today)>>
    /\ UNCHANGED <<profile, restored, coreVars, sideVars, loaderVars, apiVars, ppVars, memVars>>

\* HorseProfile.from_dict(d)
FromDict ==
    /\ profile_dict # <<>>
    /\ restored = <<>>
    /\ restored' = <<from_dict(profile_dict[1])>>
    /\ UNCHANGED <<profile, profile_dict, coreVars, sideVars, loaderVars, apiVars, ppVars, memVars>>

DictNext == DictAppendMedical \/ DictAppendSession \/ ToDict \/ FromDict

DictSpec == DictInit /\ [][DictNext]_vars

\* C11: from_dict applied to p.to_dict() returns a profile equal to p field for
\* field, with both histories holding the same entries in the same order.
C11_RoundTrip ==
    restored # <<>> => restored[1] = Returned(profile)

\* a profile with two different entries in each history, one carrying notes and
\* one without, has been serialised and restored
C11_Witness ==
    /\ restored # <<>>
    /\ restored[1].status = "ok"
    /\ Len(profile.medical_history) = 2
    /\ Len(profile.training_history) = 2
    /\ profile.medical_history[1] # profile.medical_history[2]
    /\ profile.training_history[1].notes # profile.training_history[2].notes
    /\ restored[1].value.training_history = profile.training_history
    /\ profile.lineage # <<>>

-----------------------------------------------------------------------------
\* DataLoader.load_horse_profiles / load_training_data
\* A file is missing, unreadable (open raises an OSError other than
\* FileNotFoundError), not JSON, or a JSON list of dicts.

MaxEntries == 2     \* entries of a JSON file read by the loader

JsonFile(entries) == [kind |-> "json", data |-> entries]

\* a dict without one of its keys
Without(d, key) == [k \in DOMAIN d \ {key} |-> d[k]]

InvalidDate == <<"2", "0", "2", "4", "-", "0", "2", "-", "3", "0">>

GoodEntry ==
    to_dict([NewProfile("h1", Date(2016, 2, 29), <<>>) EXCEPT
                 !.medical_history = <<MedicalRecord(Date(2024, 2, 10), "colic", "rest", <<>>)>>,
                 !.training_history = <<TrainingSession(Date(2024, 5, 1), "trot", 30, "low", 7, <<>>)>>],
            RunDate)

\* entries of a horse_profiles.json written by hand or by another tool
LoaderEntries ==
    {GoodEntry,
     Without(GoodEntry, "id"),
     Without(GoodEntry, "birth_date"),
     [GoodEntry EXCEPT !.birth_date = InvalidDate],
     [GoodEntry EXCEPT !.training_history[1].date = InvalidDate],
     [GoodEntry EXCEPT !.medical_history = <<Without(GoodEntry.medical_history[1], "condition")>>]}

EntryLists == UNION {[1..n -> LoaderEntries] : n \in 0..MaxEntries}

LoaderFiles ==
    {[kind |-> k, data |-> <<>>] : k \in {"missing", "unreadable", "invalid_json"}}
        \cup {JsonFile(entries) : entries \in EntryLists}

RECURSIVE profiles_from(_)
\* [HorseProfile.from_dict(profile_data) for profile_data in data]: the
\* profiles in order, or the exception of the first entry that raises
profiles_from(data) ==
    IF data = <<>> THEN Returned(<<>>)
    ELSE CHOOSE outcome \in
             {IF first.status # "ok" THEN first
              ELSE IF rest.status # "ok" THEN rest
              ELSE Returned(<<first.value>> \o rest.value) :
                  first \in {from_dict(Head(data))},
                  rest \in {profiles_from(Tail(data))}} : TRUE

\* DataLoader.load_horse_profiles
load_horse_profiles(file) ==
    CASE file.kind = "missing"      -> Returned(<<>>)
      [] file.kind = "invalid_json" -> Returned(<<>>)
      [] file.kind = "unreadable"   -> Raised("PermissionError")
      [] file.kind = "json"         -> profiles_from(file.data)

\* DataLoader.load_training_data
load_training_data(file) ==
    CASE file.kind = "missing"      -> Returned(<<>>)
      [] file.kind = "invalid_json" -> Returned(<<>>)
      [] file.kind = "unreadable"   -> Raised("PermissionError")
      [] file.kind = "json"         -> Returned(file.data)

Loaded(op, outcome) == [op |-> op, status |-> outcome.status, value |-> outcome.value]

LoaderInit ==
    /\ CoreInit /\ SideIdle /\ DictIdle /\ ApiIdle /\ PreprocessorIdle /\ MemoryIdle
    /\ data_file \in LoaderFiles
    /\ loaded = <<>>

LoadHorseProfiles ==
    /\ loaded' = <<Loaded("load_horse_profiles", load_horse_profiles(data_file))>>
    /\ UNCHANGED <<data_file, coreVars, sideVars, dictVars, apiVars, ppVars, memVars>>

LoadTrainingData ==
    /\ loaded' = <<Loaded("load_training_data", load_training_data(data_file))>>
    /\ UNCHANGED <<data_file, coreVars, sideVars, dictVars, apiVars, ppVars, memVars>>

LoaderNext == LoadHorseProfiles \/ LoadTrainingData

LoaderSpec == LoaderInit /\ [][LoaderNext]_vars

\* a JSON file with an entry that from_dict cannot turn into a profile
Malformed(file) ==
    \/ file.kind = "invalid_json"
    \/ file.kind = "json" /\ \E i \in 1..Len(file.data) : from_dict(file.data[i]).status # "ok"

\* C12: load_horse_profiles and load_training_data never raise to the caller,
\* and a missing or malformed file (invalid JSON, entries lacking required
\* fields or carrying invalid dates) is returned as an empty list.
C12_NeverRaises ==
    loaded # <<>> =>
        /\ loaded[1].status = "ok"
        /\ (data_file.kind = "missing" \/ Malformed(data_file)) => loaded[1].value = <<>>

-----------------------------------------------------------------------------
\* DataPreprocessor._preprocess_dataframe
\* The parameters an estimator stores are determined by the batch it was fitted
\* on, so a fitted estimator is represented by the name of that batch and an
\* unfitted one by "unfitted"; the frame a call returns is determined by the
\* batch and the parameters each transform used.

BatchNames == {"B", "C"}

ColumnKinds == {"numeric", "categorical", "both"}

Batches == {[name |-> n, columns |-> k] : n \in BatchNames, k \in ColumnKinds}

has_numerical(batch) == batch.columns \in {"numeric", "both"}

has_categorical(batch) == batch.columns \in {"categorical", "both"}

\* DataPreprocessor.__init__
NewPreprocessor ==
    [fitted |-> FALSE, imputer |-> "unfitted", scaler |-> "unfitted", encoder |-> "unfitted"]

Params(pp) == [imputer |-> pp.imputer, scaler |-> pp.scaler, encoder |-> pp.encoder]

\* lines 168-174: fit the imputer when asked or when the flag is unset, then impute
impute_step(pp, batch, fit) ==
    IF has_numerical(batch) /\ (fit \/ ~pp.fitted)
    THEN [pp EXCEPT !.imputer = batch.name, !.fitted = TRUE]
    ELSE pp

\* lines 177-179: fit the scaler when asked or when the flag is unset
scale_step(pp, batch, fit) ==
    IF has_numerical(batch) /\ (fit \/ ~pp.fitted)
    THEN [pp EXCEPT !.scaler = batch.name]
    ELSE pp

\* lines 193-195: fit the encoder when asked or when the flag is unset
encode_step(pp, batch, fit) ==
    IF has_categorical(batch) /\ (fit \/ ~pp.fitted)
    THEN [pp EXCEPT !.encoder = batch.name]
    ELSE pp

Frame(batch, pp) ==
    [batch    |-> batch,
     imputed  |-> IF has_numerical(batch) THEN pp.imputer ELSE "absent",
     scaled   |-> IF has_numerical(batch) THEN pp.scaler ELSE "absent",
     encoded  |-> IF has_categorical(batch) THEN pp.encoder ELSE "absent"]

\* _preprocess_dataframe(df, fit): the preprocessor afterwards, and the frame
\* returned or the error raised by the first transform of an unfitted estimator
preprocess_dataframe(pp, batch, fit) ==
    LET p1 == impute_step(pp, batch, fit)
        p2 == scale_step(p1, batch, fit)
        p3 == encode_step(p2, batch, fit)
    IN  IF has_numerical(batch) /\ p1.imputer = "unfitted"
        THEN [pp |-> p1, status |-> "NotFittedError", frame |-> <<>>]
        ELSE IF has_numerical(batch) /\ p2.scaler = "unfitted"
        THEN [pp |-> p2, status |-> "NotFittedError", frame |-> <<>>]
        ELSE IF has_categorical(batch) /\ p3.encoder = "unfitted"
        THEN [pp |-> p3, status |-> "NotFittedError", frame |-> <<>>]
        ELSE [pp |-> p3, status |-> "ok", frame |-> <<Frame(batch, p3)>>]

Call(batch, fit, before, outcome) ==
    [batch |-> batch, fit |-> fit, before |-> before, after |-> outcome.pp,
     status |-> outcome.status, frame |-> outcome.frame]

PreprocessorInit ==
    /\ CoreInit /\ SideIdle /\ DictIdle /\ LoaderIdle /\ ApiIdle /\ MemoryIdle
    /\ preprocessor = NewPreprocessor
    /\ pp_result = <<>>
    /\ pp_fit_result = <<>>

\* _preprocess_dataframe(df, fit=True)
FitTransform ==
    \E batch \in Batches :
        LET outcome == preprocess_dataframe(preprocessor, batch, TRUE)
        IN  /\ preprocessor' = outcome.pp
            /\ pp_result' = <<Call(batch, TRUE, preprocessor, outcome)>>
            /\ pp_fit_result' = <<Call(batch, TRUE, preprocessor, outcome)>>
            /\ UNCHANGED <<coreVars, sideVars, dictVars, loaderVars, apiVars, memVars>>

\* _preprocess_dataframe(df, fit=False)
Transform ==
    \E batch \in Batches :
        LET outcome == preprocess_dataframe(preprocessor, batch, FALSE)
        IN  /\ preprocessor' = outcome.pp
            /\ pp_result' = <<Call(batch, FALSE, preprocessor, outcome)>>
            /\ UNCHANGED <<pp_fit_result, coreVars, sideVars, dictVars, loaderVars, apiVars, memVars>>

PreprocessorNext == FitTransform \/ Transform

PreprocessorSpec == PreprocessorInit /\ [][PreprocessorNext]_vars

\* C13: a fit=false call on a preprocessor that holds no stored parameters
\* fails with a not-fitted error whatever columns the input has, and a fit=true
\* call succeeds and stores the parameters of every estimator its columns use.
C13_UnfittedTransformFails ==
    pp_result # <<>> =>
        LET call == pp_result[1]
        IN  /\ (~call.fit /\ call.before = NewPreprocessor) => call.status = "NotFittedError"
            /\ call.fit =>
                   /\ call.status = "ok"
                   /\ has_numerical(call.batch) =>
                          call.after.imputer = call.batch.name /\ call.after.scaler = call.batch.name
                   /\ has_categorical(call.batch) => call.after.encoder = call.batch.name

\* C14: once a fit=true call on a batch has succeeded, later fit=false calls
\* leave the stored parameters as that call left them, and a fit=false call on
\* the same batch returns the frame the fit=true call returned.
C14_TransformReusesParameters ==
    (pp_fit_result # <<>> /\ pp_fit_result[1].status = "ok") =>
        /\ Params(preprocessor) = Params(pp_fit_result[1].after)
        /\ (pp_result # <<>> /\ ~pp_result[1].fit /\ pp_result[1].batch = pp_fit_result[1].batch) =>
               /\ pp_result[1].status = "ok"
               /\ pp_result[1].frame = pp_fit_result[1].frame

-----------------------------------------------------------------------------
\* HorseMemorySystem: instances sharing one storage file, called from threads
\* A dict is a function from its keys. Each thread calls the methods of one
\* instance; a method runs from one position to the next in one step, and the
\* steps of different threads interleave.

MaxCalls == 2       \* method calls each thread makes

Instances == {1, 2}

Threads == {"t1", "t2"}

HorseNames == {"Star", "Bolt"}

NoteMessages == {"sound"}

\* the age and breed add_horse is called with for a name
HorseDetails ==
    [name \in HorseNames |->
        IF name = "Star"
        THEN {[age |-> 3, breed |-> "Arabian"], [age |-> 7, breed |-> "Morgan"]}
        ELSE {[age |-> 3, breed |-> "Arabian"]}]

ReadOps == {"list_horses", "get_conversations", "generate_summary"}

FileMissing == [kind |-> "missing"]

\* a file that json.load rejects: zero bytes long, or not empty
BadFiles == {[kind |-> "empty"], [kind |-> "corrupt"]}

\* the JSON document save writes
FileData(h, c) == [kind |-> "data", horses |-> h, conversations |-> c]

\* d[key] = value
Put(d, key, value) == (key :> value) @@ d

save_data_mutant(i) ==
    IF storage_file.kind = "data"
    THEN FileData(horses[i] @@ storage_file.horses, conversations[i] @@ storage_file.conversations)
    ELSE FileData(horses[i], conversations[i])

\* save, lines 61-64: data = {"horses": self.horses, "conversations": self.conversations}
save_data(i) == FileData(horses[i], conversations[i])

ensure_conversations_mutant(c, name) == Put(c, name, <<>>)

\* add_horse, lines 24-25: if name not in self.conversations: self.conversations[name] = []
ensure_conversations(c, name) == IF name \in DOMAIN c THEN c ELSE Put(c, name, <<>>)

Idle(t) == pc[t].step = "idle"

CanCall(t) == Idle(t) /\ pc[t].calls < MaxCalls

\* the thread enters a method
Enter(t, op, step, name) == [pc[t] EXCEPT !.op = op, !.step = step, !.name = name, !.last = "running"]

\* the method returns or raises
Leave(t, outcome) ==
    [pc[t] EXCEPT !.op = "none", !.step = "idle", !.name = "", !.details = <<>>,
                  !.last = outcome, !.calls = @ + 1]

\* HorseMemorySystem.__init__ of each instance with no storage file yet
MemoryInit ==
    /\ CoreInit /\ SideIdle /\ DictIdle /\ LoaderIdle /\ ApiIdle /\ PreprocessorIdle
    /\ horses = [i \in Instances |-> <<>>]
    /\ conversations = [i \in Instances |-> <<>>]
    /\ lock = [i \in Instances |-> "free"]
    /\ \E i \in Instances :
           pc = [t \in Threads |->
                    [inst |-> IF t = "t1" THEN 1 ELSE i, op |-> "none", step |-> "idle",
                     name |-> "", details |-> <<>>, calls |-> 0, last |-> "none"]]
    /\ storage_file = FileMissing
    /\ tmp_file = FileMissing
    /\ backups = {}

\* add_horse, lines 15-20: the name or the age is rejected before the lock is taken
AddHorseInvalid ==
    \E t \in Threads :
        /\ CanCall(t)
        /\ pc' = [pc EXCEPT ![t] = Leave(t, "ValueError")]
        /\ UNCHANGED <<horses, conversations, lock, storage_file, tmp_file, backups, coreVars, sideVars, dictVars, loaderVars, apiVars, ppVars>>

\* add_horse, lines 22-23: take the lock, self.horses[name] = {...}
AddHorseBegin ==
    \E t \in Threads, name \in HorseNames : \E details \in HorseDetails[name] :
        LET i == pc[t].inst
        IN  /\ CanCall(t)
            /\ lock[i] = "free"
            /\ lock' = [lock EXCEPT ![i] = t]
            /\ horses' = [horses EXCEPT ![i] = Put(@, name, details)]
            /\ pc' = [pc EXCEPT ![t] = [Enter(t, "add_horse", "conversations", name)
                                           EXCEPT !.details = <<details>>]]
            /\ UNCHANGED <<conversations, storage_file, tmp_file, backups, coreVars, sideVars, dictVars, loaderVars, apiVars, ppVars>>

\* add_horse, lines 24-25: if name not in self.conversations: self.conversations[name] = []
AddHorseConversations ==
    \E t \in Threads :
        LET i == pc[t].inst
            name == pc[t].name
        IN  /\ pc[t].step = "conversations"
            /\ conversations' = [conversations EXCEPT ![i] = ensure_conversations(@, name)]
            /\ pc' = [pc EXCEPT ![t].step = "dump"]
            /\ UNCHANGED <<horses, lock, storage_file, tmp_file, backups, coreVars, sideVars, dictVars, loaderVars, apiVars, ppVars>>

\* add_conversation, lines 29-30: the message is rejected before the lock is taken
AddConversationInvalid ==
    \E t \in Threads :
        /\ CanCall(t)
        /\ pc' = [pc EXCEPT ![t] = Leave(t, "ValueError")]
        /\ UNCHANGED <<horses, conversations, lock, storage_file, tmp_file, backups, coreVars, sideVars, dictVars, loaderVars, apiVars, ppVars>>

\* add_conversation, lines 32-40: take the lock; an unknown horse raises and
\* releases it, otherwise the note is appended
AddConversationBegin ==
    \E t \in Threads, name \in HorseNames, message \in NoteMessages :
        LET i == pc[t].inst
        IN  /\ CanCall(t)
            /\ lock[i] = "free"
            /\ IF name \notin DOMAIN horses[i]
               THEN /\ pc' = [pc EXCEPT ![t] = Leave(t, "ValueError")]
                    /\ UNCHANGED <<conversations, lock>>
               ELSE /\ lock' = [lock EXCEPT ![i] = t]
                    /\ conversations' = [conversations EXCEPT ![i] =
                           Put(@, name, Append(IF name \in DOMAIN @ THEN @[name] ELSE <<>>,
                                               [message |-> message]))]
                    /\ pc' = [pc EXCEPT ![t] = Enter(t, "add_conversation", "dump", name)]
            /\ UNCHANGED <<horses, storage_file, tmp_file, backups, coreVars, sideVars, dictVars, loaderVars, apiVars, ppVars>>

\* list_horses / get_conversations / generate_summary: take the lock
ReadBegin ==
    \E t \in Threads, op \in ReadOps :
        LET i == pc[t].inst
        IN  /\ CanCall(t)
            /\ lock[i] = "free"
            /\ lock' = [lock EXCEPT ![i] = t]
            /\ pc' = [pc EXCEPT ![t] = Enter(t, op, "read", "")]
            /\ UNCHANGED <<horses, conversations, storage_file, tmp_file, backups, coreVars, sideVars, dictVars, loaderVars, apiVars, ppVars>>

\* list_horses / get_conversations / generate_summary: read the maps, release, return
ReadEnd ==
    \E t \in Threads :
        /\ pc[t].step = "read"
        /\ lock' = [lock EXCEPT ![pc[t].inst] = "free"]
        /\ pc' = [pc EXCEPT ![t] = Leave(t, "ok")]
        /\ UNCHANGED <<horses, conversations, storage_file, tmp_file, backups, coreVars, sideVars, dictVars, loaderVars, apiVars, ppVars>>

\* save() called by the thread itself: no lock is taken
SaveBegin ==
    \E t \in Threads :
        /\ CanCall(t)
        /\ pc' = [pc EXCEPT ![t] = Enter(t, "save", "dump", "")]
        /\ UNCHANGED <<horses, conversations, lock, storage_file, tmp_file, backups, coreVars, sideVars, dictVars, loaderVars, apiVars, ppVars>>

\* save, lines 61-67: the maps are written to "<storage_file>.tmp"
SaveDump ==
    \E t \in Threads :
        /\ pc[t].step = "dump"
        /\ tmp_file' = save_data(pc[t].inst)
        /\ pc' = [pc EXCEPT ![t].step = "replace"]
        /\ UNCHANGED <<horses, conversations, lock, storage_file, backups, coreVars, sideVars, dictVars, loaderVars, apiVars, ppVars>>

\* save, lines 68-70: os.replace(temp_file, storage_file); a missing temporary
\* file raises and is caught; then the caller of save releases its lock
SaveReplace ==
    \E t \in Threads :
        LET i == pc[t].inst
        IN  /\ pc[t].step = "replace"
            /\ IF tmp_file.kind = "missing"
               THEN /\ pc' = [pc EXCEPT ![t] = Leave(t, "save_failed")]
                    /\ UNCHANGED <<storage_file, tmp_file>>
               ELSE /\ storage_file' = tmp_file
                    /\ tmp_file' = FileMissing
                    /\ pc' = [pc EXCEPT ![t] =
                                 Leave(t, IF tmp_file = save_data(i) THEN "saved" ELSE "saved_other")]
            /\ lock' = IF pc[t].op = "save" THEN lock ELSE [lock EXCEPT ![i] = "free"]
            /\ UNCHANGED <<horses, conversations, backups, coreVars, sideVars, dictVars, loaderVars, apiVars, ppVars>>

\* load() called by the thread itself: no lock is taken
Load ==
    \E t \in Threads, rename_fails \in BOOLEAN :
        LET i == pc[t].inst
        IN  /\ CanCall(t)
            /\ CASE storage_file.kind = "missing" ->
                     /\ ~rename_fails
                     /\ pc' = [pc EXCEPT ![t] = Leave(t, "load_missing")]
                     /\ UNCHANGED <<horses, conversations, storage_file, backups>>
                 [] storage_file.kind = "data" ->
                     /\ ~rename_fails
                     /\ horses' = [horses EXCEPT ![i] = storage_file.horses]
                     /\ conversations' = [conversations EXCEPT ![i] = storage_file.conversations]
                     /\ pc' = [pc EXCEPT ![t] = Leave(t, "loaded")]
                     /\ UNCHANGED <<storage_file, backups>>
                 [] storage_file.kind = "empty" ->
                     /\ ~rename_fails
                     /\ pc' = [pc EXCEPT ![t] = Leave(t, "load_bad")]
                     /\ UNCHANGED <<horses, conversations, storage_file, backups>>
                 [] storage_file.kind = "corrupt" ->
                     IF rename_fails
                     THEN /\ pc' = [pc EXCEPT ![t] = Leave(t, "load_raised")]
                          /\ UNCHANGED <<horses, conversations, storage_file, backups>>
                     ELSE /\ backups' = backups \cup {storage_file}
                          /\ storage_file' = FileMissing
                          /\ pc' = [pc EXCEPT ![t] = Leave(t, "load_bad")]
                          /\ UNCHANGED <<horses, conversations>>
            /\ UNCHANGED <<lock, tmp_file, coreVars, sideVars, dictVars, loaderVars, apiVars, ppVars>>

\* the storage file is damaged from outside the program: truncated or overwritten
FileDamaged ==
    /\ storage_file.kind = "data"
    /\ storage_file' \in BadFiles
    /\ UNCHANGED <<horses, conversations, lock, pc, tmp_file, backups, coreVars, sideVars, dictVars, loaderVars, apiVars, ppVars>>

MemoryNext ==
    \/ AddHorseInvalid
    \/ AddHorseBegin
    \/ AddHorseConversations
    \/ AddConversationInvalid
    \/ AddConversationBegin
    \/ ReadBegin
    \/ ReadEnd
    \/ SaveBegin
    \/ SaveDump
    \/ SaveReplace
    \/ Load
    \/ FileDamaged

MemorySpec == MemoryInit /\ [][MemoryNext]_vars

\* positions from which the thread's next step reads or writes the maps
AtMapAccess(t) == pc[t].step \in {"conversations", "dump", "read"}

\* C15: every read and write of the maps by add_horse, add_conversation,
\* list_horses, get_conversations, generate_summary, save and load happens
\* while the calling thread holds the lock of its instance.
C15_MapAccessUnderLock ==
    \A t \in Threads : AtMapAccess(t) => lock[pc[t].inst] = t

\* thread t returns from (or raises out of) a load() that found a bad storage file
LoadOfBadFile(t) ==
    /\ Idle(t)
    /\ storage_file \in BadFiles
    /\ pc'[t].calls = pc[t].calls + 1
    /\ pc'[t].last \in {"load_bad", "load_raised"}

\* C16: load on a malformed storage file never raises, renames the bad file
\* aside to a backup, leaves the storage path without the bad content, and
\* leaves the in-memory horses and conversations empty.
C16_LoadBadFile ==
    [][\A t \in Threads :
           LoadOfBadFile(t) =>
               /\ pc'[t].last = "load_bad"
               /\ storage_file \in backups'
               /\ storage_file' \notin BadFiles
               /\ horses'[pc[t].inst] = <<>>
               /\ conversations'[pc[t].inst] = <<>>]_vars

\* C17: persistence is a whole-file overwrite: save writes exactly the maps of
\* the saving instance to the temporary file and the replace installs exactly
\* that content, so nothing that only the file held survives a save. With two
\* instances on one file a horse saved through one is lost when the other saves.
C17_WholeFileOverwrite ==
    [][/\ (tmp_file' # tmp_file /\ tmp_file'.kind = "data") =>
              \E t \in Threads :
                  /\ pc[t].step = "dump"
                  /\ tmp_file' = FileData(horses[pc[t].inst], conversations[pc[t].inst])
       /\ (storage_file' # storage_file /\ storage_file'.kind = "data") =>
              storage_file' = tmp_file]_vars

\* thread t1 added Star through instance 1 and its save installed instance 1's
\* maps; thread t2 then saved through instance 2; the file holds Bolt only
C17_Witness ==
    /\ pc["t2"].inst = 2
    /\ \A t \in Threads : Idle(t) /\ pc[t].last = "saved"
    /\ "Star" \in DOMAIN horses[1]
    /\ "Star" \notin DOMAIN horses[2]
    /\ storage_file.kind = "data"
    /\ DOMAIN storage_file.horses = {"Bolt"}

-----------------------------------------------------------------------------
\* HTTP endpoints over the persisted profile collection (horse_profiles.json)
\* Every request builds a new DataLoader, loads the whole file, and rewrites the
\* whole file when it changes the collection.

MaxProfiles == 2    \* profiles in the persisted collection
MaxSessions == 2    \* training sessions of one persisted profile

HorseIds == {"h1", "h2"}

\* request bodies of POST /horses and PUT /horses/{horse_id}: horse.dict()
BodyOf(p) == Without(to_dict(p, RunDate), "age")

HorseBodies ==
    {BodyOf(NewProfile(id, Date(2016, 2, 29), <<>>)) : id \in HorseIds}
        \cup {BodyOf([NewProfile(id, Date(2016, 2, 29), <<>>) EXCEPT
                         !.medical_history = <<MedicalRecord(Date(2024, 2, 10), "colic", "rest", <<>>)>>,
                         !.training_history =
                             <<TrainingSession(Date(2024, 4, 30), "jump", 25, "high", 4, <<"refused twice">>)>>])
                 : id \in HorseIds}
        \cup {[BodyOf(NewProfile("h1", Date(2016, 2, 29), <<>>)) EXCEPT !.birth_date = InvalidDate]}

\* request bodies of POST /training/{horse_id}
SessionBodies ==
    {session_to_dict(TrainingSession(Date(2024, 5, 1), "trot", 30, "low", 7, <<>>)),
     [session_to_dict(TrainingSession(Date(2024, 5, 1), "trot", 30, "low", 7, <<>>))
         EXCEPT !.date = InvalidDate]}

RECURSIVE profile_dicts(_, _)
\* [profile.to_dict() for profile in profiles]
profile_dicts(profiles, tdy) ==
    IF profiles = <<>> THEN <<>>
    ELSE <<to_dict(Head(profiles), tdy)>> \o profile_dicts(Tail(profiles), tdy)

\* DataLoader.save_horse_profiles: the file is rewritten as a whole
save_horse_profiles(profiles, tdy) == JsonFile(profile_dicts(profiles, tdy))

\* for i, profile in enumerate(profiles): if profile.id == horse_id: the first
\* match, or 0
FindFirst(profiles, horse_id) ==
    IF \E i \in 1..Len(profiles) : profiles[i].id = horse_id
    THEN CHOOSE i \in 1..Len(profiles) :
             /\ profiles[i].id = horse_id
             /\ \A j \in 1..(i - 1) : profiles[j].id # horse_id
    ELSE 0

\* profiles.pop(i)
Pop(profiles, i) == SubSeq(profiles, 1, i - 1) \o SubSeq(profiles, i + 1, Len(profiles))

Respond(endpoint, horse_id, status) ==
    <<[endpoint |-> endpoint, horse_id |-> horse_id, status |-> status]>>

\* the service starts with no horse_profiles.json
ApiInit ==
    /\ CoreInit /\ SideIdle /\ DictIdle /\ PreprocessorIdle /\ MemoryIdle
    /\ data_file = [kind |-> "missing", data |-> <<>>]
    /\ loaded = <<>>
    /\ response = <<>>

\* GET /horses/{horse_id}: the 404 raised inside the try block is caught by
\* `except Exception` and answered as 500
GetHorse ==
    \E profiles \in {load_horse_profiles(data_file)}, horse_id \in HorseIds :
            /\ response' =
                   IF profiles.status # "ok" THEN Respond("get_horse", horse_id, 500)
                   ELSE IF FindFirst(profiles.value, horse_id) # 0
                   THEN Respond("get_horse", horse_id, 200)
                   ELSE Respond("get_horse", horse_id, 500)
            /\ UNCHANGED <<data_file, coreVars, sideVars, dictVars, loaded, ppVars, memVars>>

\* POST /horses
CreateHorse ==
    \E profiles \in {load_horse_profiles(data_file)}, horse \in HorseBodies :
        \E new_profile \in {from_dict(horse)} :
            IF profiles.status # "ok"
            THEN /\ response' = Respond("create_horse", horse["id"], 500)
                 /\ UNCHANGED <<data_file, coreVars, sideVars, dictVars, loaded, ppVars, memVars>>
            ELSE IF FindFirst(profiles.value, horse["id"]) # 0
            THEN /\ response' = Respond("create_horse", horse["id"], 400)
                 /\ UNCHANGED <<data_file, coreVars, sideVars, dictVars, loaded, ppVars, memVars>>
            ELSE IF new_profile.status # "ok"
            THEN /\ response' = Respond("create_horse", horse["id"], 500)
                 /\ UNCHANGED <<data_file, coreVars, sideVars, dictVars, loaded, ppVars, memVars>>
            ELSE /\ Len(profiles.value) < MaxProfiles
                 /\ data_file' = save_horse_profiles(Append(profiles.value, new_profile.value), today)
                 /\ response' = Respond("create_horse", horse["id"], 200)
                 /\ UNCHANGED <<coreVars, sideVars, dictVars, loaded, ppVars, memVars>>

\* PUT /horses/{horse_id}
UpdateHorse ==
    \E profiles \in {load_horse_profiles(data_file)}, horse_id \in HorseIds,
       horse \in HorseBodies :
        \E updated \in {from_dict(horse)},
           i \in {IF profiles.status = "ok" THEN FindFirst(profiles.value, horse_id) ELSE 0} :
            IF profiles.status # "ok"
            THEN /\ response' = Respond("update_horse", horse_id, 500)
                 /\ UNCHANGED <<data_file, coreVars, sideVars, dictVars, loaded, ppVars, memVars>>
            ELSE IF i = 0
            THEN /\ response' = Respond("update_horse", horse_id, 404)
                 /\ UNCHANGED <<data_file, coreVars, sideVars, dictVars, loaded, ppVars, memVars>>
            ELSE IF updated.status # "ok"
            THEN /\ response' = Respond("update_horse", horse_id, 500)
                 /\ UNCHANGED <<data_file, coreVars, sideVars, dictVars, loaded, ppVars, memVars>>
            ELSE /\ data_file' = save_horse_profiles([profiles.value EXCEPT ![i] = updated.value], today)
                 /\ response' = Respond("update_horse", horse_id, 200)
                 /\ UNCHANGED <<coreVars, sideVars, dictVars, loaded, ppVars, memVars>>

\* DELETE /horses/{horse_id}
DeleteHorse ==
    \E profiles \in {load_horse_profiles(data_file)}, horse_id \in HorseIds :
        \E i \in {IF profiles.status = "ok" THEN FindFirst(profiles.value, horse_id) ELSE 0} :
            IF profiles.status # "ok"
            THEN /\ response' = Respond("delete_horse", horse_id, 500)
                 /\ UNCHANGED <<data_file, coreVars, sideVars, dictVars, loaded, ppVars, memVars>>
            ELSE IF i = 0
            THEN /\ response' = Respond("delete_horse", horse_id, 404)
                 /\ UNCHANGED <<data_file, coreVars, sideVars, dictVars, loaded, ppVars, memVars>>
            ELSE /\ data_file' = save_horse_profiles(Pop(profiles.value, i), today)
                 /\ response' = Respond("delete_horse", horse_id, 200)
                 /\ UNCHANGED <<coreVars, sideVars, dictVars, loaded, ppVars, memVars>>

\* POST /training/{horse_id}
AddTrainingSession ==
    \E profiles \in {load_horse_profiles(data_file)}, horse_id \in HorseIds,
       session \in SessionBodies :
        \E i \in {IF profiles.status = "ok" THEN FindFirst(profiles.value, horse_id) ELSE 0},
           new_session \in {session_from_dict(session)} :
            IF profiles.status # "ok"
            THEN /\ response' = Respond("add_training_session", horse_id, 500)
                 /\ UNCHANGED <<data_file, coreVars, sideVars, dictVars, loaded, ppVars, memVars>>
            ELSE IF i = 0
            THEN /\ response' = Respond("add_training_session", horse_id, 404)
                 /\ UNCHANGED <<data_file, coreVars, sideVars, dictVars, loaded, ppVars, memVars>>
            ELSE IF new_session.status # "ok"
            THEN /\ response' = Respond("add_training_session", horse_id, 500)
                 /\ UNCHANGED <<data_file, coreVars, sideVars, dictVars, loaded, ppVars, memVars>>
            ELSE /\ Len(profiles.value[i].training_history) < MaxSessions
                 /\ data_file' = save_horse_profiles(
                        [profiles.value EXCEPT ![i].training_history = Append(@, new_session.value)],
                        today)
                 /\ response' = Respond("add_training_session", horse_id, 200)
                 /\ UNCHANGED <<coreVars, sideVars, dictVars, loaded, ppVars, memVars>>

\* GET /recommendations?horse_id=: an empty horse_id applies no filter; with
\* profiles to work on, a new TrainingModel is trained and asked, and whatever
\* train or generate_recommendations raises is answered as 500
GetRecommendations ==
    \E profiles \in {load_horse_profiles(data_file)}, horse_id \in HorseIds \cup {""},
       trained \in BOOLEAN :
            /\ response' =
                   IF profiles.status # "ok" THEN Respond("get_recommendations", horse_id, 500)
                   ELSE IF horse_id # "" /\ FindFirst(profiles.value, horse_id) = 0
                   THEN Respond("get_recommendations", horse_id, 404)
                   ELSE Respond("get_recommendations", horse_id, IF trained THEN 200 ELSE 500)
            /\ UNCHANGED <<data_file, coreVars, sideVars, dictVars, loaded, ppVars, memVars>>

ApiNext ==
    \/ GetHorse
    \/ CreateHorse
    \/ UpdateHorse
    \/ DeleteHorse
    \/ AddTrainingSession
    \/ GetRecommendations

ApiSpec == ApiInit /\ [][ApiNext]_vars

\* the profiles of the persisted collection; none when the file is missing
Persisted(file) == load_horse_profiles(file).value

PersistedIds(file) == {Persisted(file)[i].id : i \in 1..Len(Persisted(file))}

\* C18: a request of an endpoint that takes a horse id, for an id absent from
\* the persisted collection, is answered with 404 and leaves the collection
\* unchanged.
C18_AbsentIdIs404 ==
    [][(/\ response' # <<>>
        /\ response'[1].endpoint
               \in {"get_horse", "update_horse", "delete_horse", "add_training_session",
                    "get_recommendations"}
        /\ response'[1].horse_id # ""
        /\ response'[1].horse_id \notin PersistedIds(data_file))
       => (response'[1].status = 404 /\ data_file' = data_file)]_vars

IsPrefix(s, t) == Len(s) <= Len(t) /\ \A i \in 1..Len(s) : s[i] = t[i]

ProfileOf(file, horse_id) == Persisted(file)[FindFirst(Persisted(file), horse_id)]

\* C19: for every horse id that stays in the collection, each request leaves
\* the old training_history and medical_history as a prefix of the new ones.
C19_HistoriesAppendOnly ==
    [][\A horse_id \in PersistedIds(data_file) \cap PersistedIds(data_file') :
           /\ IsPrefix(ProfileOf(data_file, horse_id).training_history,
                       ProfileOf(data_file', horse_id).training_history)
           /\ IsPrefix(ProfileOf(data_file, horse_id).medical_history,
                       ProfileOf(data_file', horse_id).medical_history)]_vars

-----------------------------------------------------------------------------
\* Class labels of the fitted classifier

TrainSucceeded == result.op = "train" /\ result.status = "ok"

ClassLabels == {model.classes[k] : k \in 1..Len(model.classes)}

\* C20 as stated: after train succeeds the class labels are exactly the
\* distinct activity_type values of the joined training set, for every split.
C20_Original ==
    TrainSucceeded => ClassLabels = result.joined

\* C20: after train succeeds the class labels are exactly the distinct
\* activity_type values of the training part of the split, each once and in
\* sorted order, and they are a non-empty subset of the values of the joined set.
C20_Amended ==
    TrainSucceeded =>
        /\ ClassLabels = result.fold
        /\ Len(model.classes) = Cardinality(result.fold)
        /\ model.classes = SelectSeq(SortedActivities, LAMBDA a : a \in ClassLabels)
        /\ result.fold # {}
        /\ result.fold \subseteq result.joined

\* train succeeded on a joined set of three activities of which only two have
\* records in the training part of the split
C20_Witness ==
    /\ TrainSucceeded
    /\ Cardinality(result.joined) = 3
    /\ Cardinality(result.fold) = 2
    /\ Len(model.classes) = 2

-----------------------------------------------------------------------------
\* Order of the recommendations of one horse

\* position of an activity in the recommendations rs, 0 when it is not recommended
PositionIn(rs, activity) ==
    IF \E j \in 1..Len(rs) : rs[j].activity_type = activity
    THEN CHOOSE j \in 1..Len(rs) : rs[j].activity_type = activity
    ELSE 0

\* C21: of two activities with equal probability the one earlier in classes_ is
\* recommended first: whenever the later one is recommended, the earlier one is
\* recommended too and stands before it, so a cut at max_per_horse between the
\* two keeps the earlier one.
C21_StableTies ==
    GenerateReturned =>
        \A i \in 1..Len(result.profiles) :
            LET rs == RecsOf(result.profiles[i].id)
            IN  \A c, d \in 1..Len(model.classes) :
                    (c < d /\ result.probs[i][c] = result.probs[i][d]
                           /\ PositionIn(rs, model.classes[d]) # 0)
                        => /\ PositionIn(rs, model.classes[c]) # 0
                           /\ PositionIn(rs, model.classes[c]) < PositionIn(rs, model.classes[d])

\* two activities tie above min_confidence and the cut at max_per_horse falls
\* between them: only the earlier class is recommended
C21_Witness ==
    /\ GenerateReturned
    /\ \E i \in 1..Len(result.profiles) : \E c, d \in 1..Len(model.classes) :
           LET rs == RecsOf(result.profiles[i].id)
           IN  /\ c < d
               /\ result.probs[i][c] = result.probs[i][d]
               /\ result.probs[i][c] >= config.min_confidence
               /\ Len(rs) = config.max_per_horse
               /\ PositionIn(rs, model.classes[c]) = Len(rs)
               /\ PositionIn(rs, model.classes[d]) = 0

-----------------------------------------------------------------------------
\* load_config (src/src/config.py)
\* A Python value is a record of its type and content: a str is a sequence of
\* one-character strings, a float is kept in units of 0.0001, a dict is a
\* function from its keys.

MaxEnv == 2         \* HORSE_TRAINER_ variables set in the environment

Py(type, v) == [type |-> type, v |-> v]

\* the default configuration of load_config
default_config ==
    [model |-> Py("dict", 
        [type |-> Py("str", <<"r", "a", "n", "d", "o", "m", "_", "f", "o", "r", "e", "s", "t">>),
         params |-> Py("dict", [n_estimators |-> Py("int", 100), max_depth |-> Py("int", 10),
                          random_state |-> Py("int", 42)])]),
     training |-> Py("dict", 
        [test_size |-> Py("float", 2000),
         validation_method |-> Py("str", <<"c", "r", "o", "s", "s", "_", "v", "a", "l">>),
         n_splits |-> Py("int", 5)]),
     features |-> Py("dict", 
        [include_weather |-> Py("bool", TRUE), include_diet |-> Py("bool", TRUE),
         include_medical |-> Py("bool", TRUE), include_lineage |-> Py("bool", TRUE)]),
     recommendations |-> Py("dict", [max_per_horse |-> Py("int", 5), min_confidence |-> Py("float", 7000)]),
     api |-> Py("dict", [host |-> Py("str", <<"0", ".", "0", ".", "0", ".", "0">>), port |-> Py("int", 8000),
                   debug |-> Py("bool", FALSE)])]

\* str.upper() of the section and key names
upper ==
    [model |-> "MODEL", type |-> "TYPE", params |-> "PARAMS",
     training |-> "TRAINING", test_size |-> "TEST_SIZE",
     validation_method |-> "VALIDATION_METHOD", n_splits |-> "N_SPLITS",
     features |-> "FEATURES", include_weather |-> "INCLUDE_WEATHER",
     include_diet |-> "INCLUDE_DIET", include_medical |-> "INCLUDE_MEDICAL",
     include_lineage |-> "INCLUDE_LINEAGE",
     recommendations |-> "RECOMMENDATIONS", max_per_horse |-> "MAX_PER_HORSE",
     min_confidence |-> "MIN_CONFIDENCE",
     api |-> "API", host |-> "HOST", port |-> "PORT", debug |-> "DEBUG",
     logging |-> "LOGGING", level |-> "LEVEL"]

\* f"HORSE_TRAINER_{key1.upper()}_{key2.upper()}", kept as its three parts
env_var(key1, key2) == <<"HORSE_TRAINER", upper[key1], upper[key2]>>

\* str.lower() on the letters the environment values carry
lower(s) ==
    LET small == [A |-> "a", B |-> "b", C |-> "c", E |-> "e", I |-> "i", N |-> "n",
                  R |-> "r", S |-> "s", T |-> "t", U |-> "u", Y |-> "y"]
    IN  [i \in 1..Len(s) |-> IF s[i] \in DOMAIN small THEN small[s[i]] ELSE s[i]]

RECURSIVE DecimalValue(_)
\* the number a sequence of digit characters stands for
DecimalValue(s) ==
    IF s = <<>> THEN 0
    ELSE DecimalValue(SubSeq(s, 1, Len(s) - 1)) * 10 + DigitValue[s[Len(s)]]

\* int(s) for a text of digits with or without a sign; anything else raises
\* ValueError
int_of(s) ==
    LET signed == s # <<>> /\ s[1] \in {"-", "+"}
        digits == IF signed THEN Tail(s) ELSE s
    IN  IF digits # <<>> /\ \A i \in 1..Len(digits) : digits[i] \in DOMAIN DigitValue
        THEN Returned(Py("int", IF signed /\ s[1] = "-" THEN 0 - DecimalValue(digits)
                                ELSE DecimalValue(digits)))
        ELSE Raised("ValueError")

\* float(s) for a text of digits with at most one '.' and at most four decimals;
\* anything else raises ValueError
float_of(s) ==
    LET dots   == {i \in 1..Len(s) : s[i] = "."}
        point  == IF dots = {} THEN Len(s) + 1 ELSE CHOOSE i \in dots : TRUE
        whole  == SubSeq(s, 1, point - 1)
        frac   == SubSeq(s, point + 1, Len(s))
        padded == frac \o SubSeq(<<"0", "0", "0", "0">>, 1, 4 - Len(frac))
    IN  IF /\ Cardinality(dots) <= 1
           /\ Len(whole) + Len(frac) > 0
           /\ Len(frac) <= 4
           /\ \A i \in 1..Len(s) : i \in dots \/ s[i] \in DOMAIN DigitValue
        THEN Returned(Py("float", DecimalValue(whole) * One + DecimalValue(padded)))
        ELSE Raised("ValueError")

\* the conversion of an environment value to the type of original_value
coerce(original_value, text) ==
    IF original_value.type = "bool"
    THEN Returned(Py("bool", lower(text) \in {<<"t", "r", "u", "e">>, <<"y", "e", "s">>, <<"1">>}))
    ELSE IF original_value.type = "int" THEN int_of(text)
    ELSE IF original_value.type = "float" THEN float_of(text)
    ELSE Returned(Py("str", text))

\* dict.update(file_config): the top-level keys of the file replace whole sections
update(d, file_config) ==
    [k \in DOMAIN d \cup DOMAIN file_config |->
        IF k \in DOMAIN file_config THEN file_config[k] ELSE d[k]]

\* the two loops over key1 and key2 with every conversion succeeding
override(cfg, env) ==
    [key1 \in DOMAIN cfg |->
        IF cfg[key1].type # "dict" THEN cfg[key1]
        ELSE Py("dict", [key2 \in DOMAIN cfg[key1].v |->
                 IF env_var(key1, key2) \in DOMAIN env
                 THEN coerce(cfg[key1].v[key2], env[env_var(key1, key2)]).value
                 ELSE cfg[key1].v[key2]])]

\* a conversion in the loops raises
override_raises(cfg, env) ==
    \E key1 \in DOMAIN cfg :
        /\ cfg[key1].type = "dict"
        /\ \E key2 \in DOMAIN cfg[key1].v :
               /\ env_var(key1, key2) \in DOMAIN env
               /\ coerce(cfg[key1].v[key2], env[env_var(key1, key2)]).status # "ok"

\* load_config(config_path)
load_config(file, env) ==
    CASE file.kind = "unreadable" -> Raised("PermissionError")
      [] file.kind = "json_list"  -> Raised("TypeError")
      [] OTHER ->
           LET cfg == IF file.kind = "json" THEN update(default_config, file.data)
                      ELSE default_config
           IN  IF override_raises(cfg, env) THEN Raised("ValueError")
               ELSE Returned(override(cfg, env))

\* the files at config_path
ConfigFiles ==
    {[kind |-> "missing"], [kind |-> "invalid_json"], [kind |-> "unreadable"],
     [kind |-> "json_list"],
     [kind |-> "json", data |-> <<>>],
     [kind |-> "json", data |-> [api |-> Py("dict", [port |-> Py("int", 9000)])]],
     [kind |-> "json",
      data |-> [recommendations |-> Py("dict", [max_per_horse |-> Py("int", 3),
                                          min_confidence |-> Py("float", 1000)])]],
     [kind |-> "json", data |-> [logging |-> Py("dict", [level |-> Py("str", <<"I", "N", "F", "O">>)])]]}

\* the HORSE_TRAINER_ variables and the values they are set to
EnvNames ==
    {env_var("api", "port"), env_var("api", "debug"), env_var("api", "host"),
     env_var("recommendations", "min_confidence"), env_var("model", "params"),
     env_var("logging", "level")}

EnvValues ==
    {<<"9", "0", "0", "0">>, <<"1">>, <<"0", ".", "5">>, <<"T", "R", "U", "E">>, <<"n", "o">>}

ConfigInit ==
    /\ CoreInit /\ AdapterIdle /\ DictIdle /\ LoaderIdle /\ ApiIdle /\ PreprocessorIdle
    /\ MemoryIdle
    /\ recent = <<>>
    /\ config_file \in ConfigFiles
    /\ environ = <<>>
    /\ loaded_config = <<>>

\* a variable is set in the environment before the process starts
SetEnv ==
    /\ loaded_config = <<>>
    /\ Cardinality(DOMAIN environ) < MaxEnv
    /\ \E name \in EnvNames \ DOMAIN environ, text \in EnvValues :
           environ' = Put(environ, name, text)
    /\ UNCHANGED <<config_file, loaded_config>>
    /\ UNCHANGED <<coreVars, adapterVars, recent, dictVars, loaderVars, apiVars, ppVars, memVars>>

LoadConfig ==
    /\ loaded_config' = <<load_config(config_file, environ)>>
    /\ UNCHANGED <<config_file, environ>>
    /\ UNCHANGED <<coreVars, adapterVars, recent, dictVars, loaderVars, apiVars, ppVars, memVars>>

ConfigNext == SetEnv \/ LoadConfig

ConfigSpec == ConfigInit /\ [][ConfigNext]_vars

\* the value a leaf is given by the file, or else by the default configuration
DeclaredLeaf(file, section, key) ==
    IF /\ file.kind = "json"
       /\ section \in DOMAIN file.data
       /\ key \in DOMAIN file.data[section].v
    THEN file.data[section].v[key]
    ELSE default_config[section].v[key]

\* the leaves section.key of the default configuration and of the file
Leaves(file) ==
    {l \in (DOMAIN upper) \X (DOMAIN upper) :
        \/ l[1] \in DOMAIN default_config /\ l[2] \in DOMAIN default_config[l[1]].v
        \/ /\ file.kind = "json"
           /\ l[1] \in DOMAIN file.data
           /\ l[2] \in DOMAIN file.data[l[1]].v}

\* C22: in the configuration load_config returns, every leaf whose variable
\* HORSE_TRAINER_<SECTION>_<KEY> is set holds that value converted to the type
\* of the value it replaces, and every other leaf holds its file value, or its
\* default value when the file does not give one.
C22_EnvOverrides ==
    (loaded_config # <<>> /\ loaded_config[1].status = "ok") =>
        \A l \in Leaves(config_file) :
            LET out      == loaded_config[1].value
                declared == DeclaredLeaf(config_file, l[1], l[2])
            IN  /\ l[1] \in DOMAIN out
                /\ l[2] \in DOMAIN out[l[1]].v
                /\ out[l[1]].v[l[2]] =
                       IF env_var(l[1], l[2]) \in DOMAIN environ
                       THEN coerce(declared, environ[env_var(l[1], l[2])]).value
                       ELSE declared

-----------------------------------------------------------------------------
\* HorseTrainerAdapter (src/horse_trainer_adapter.py) over its own
\* HorseMemorySystem (instance 1), called from one thread: a query is handled
\* from start to end before the next one. Texts are sequences of characters.

MaxQueries == 3     \* queries handled by the adapter

\* str.strip(): without the blanks at both ends
strip(s) ==
    LET inked == {i \in 1..Len(s) : s[i] # " "}
    IN  IF inked = {} THEN <<>>
        ELSE SubSeq(s, CHOOSE i \in inked : \A j \in inked : i <= j,
                       CHOOSE i \in inked : \A j \in inked : i >= j)

\* str.startswith(prefix)
startswith(s, prefix) == Len(s) >= Len(prefix) /\ SubSeq(s, 1, Len(prefix)) = prefix

\* sub in s
contains(s, sub) == \E i \in 1..(Len(s) - Len(sub) + 1) : SubSeq(s, i, i + Len(sub) - 1) = sub

RECURSIVE remove_all(_, _)
\* str.replace(sub, ""): every occurrence is taken out, left to right
remove_all(s, sub) ==
    IF Len(s) < Len(sub) THEN s
    ELSE IF startswith(s, sub) THEN remove_all(SubSeq(s, Len(sub) + 1, Len(s)), sub)
    ELSE <<Head(s)>> \o remove_all(Tail(s), sub)

RECURSIVE split(_, _, _)
\* str.split(sep, maxsplit); maxsplit = -1 puts no limit on the splits
split(s, sep, maxsplit) ==
    IF maxsplit = 0 \/ \A i \in 1..Len(s) : s[i] # sep THEN <<s>>
    ELSE CHOOSE parts \in
             {<<SubSeq(s, 1, i - 1)>> \o split(SubSeq(s, i + 1, Len(s)), sep, maxsplit - 1) :
                  i \in {CHOOSE i \in 1..Len(s) :
                             s[i] = sep /\ \A j \in 1..(i - 1) : s[j] # sep}} : TRUE

ADD_HORSE == <<"a", "d", "d", " ", "h", "o", "r", "s", "e">>
NOTE_FOR  == <<"n", "o", "t", "e", " ", "f", "o", "r">>
ADD_NOTE  == <<"a", "d", "d", " ", "n", "o", "t", "e">>

\* HorseMemorySystem.add_horse called by the one thread: the maps after the
\* call, or ValueError
add_horse(h, c, name, horse_age, breed) ==
    IF strip(name) = <<>> THEN Raised("ValueError")
    ELSE Returned([horses |-> Put(h, name, [age |-> horse_age, breed |-> breed]),
                   conversations |-> IF name \in DOMAIN c THEN c ELSE Put(c, name, <<>>)])

\* HorseMemorySystem.add_conversation called by the one thread
add_conversation(h, c, horse_name, message) ==
    IF horse_name \notin DOMAIN h THEN Raised("ValueError")
    ELSE Returned([horses |-> h,
                   conversations |->
                       Put(c, horse_name,
                           Append(IF horse_name \in DOMAIN c THEN c[horse_name] ELSE <<>>,
                                  [message |-> message]))])

\* a handler returns: the reply and, when the store was changed, its new maps
Handled(reply_text, maps) == Returned([reply |-> Py("str", reply_text), maps |-> maps])

_handle_add_horse_mutant(query, h, c) ==
    LET parts == split(strip(remove_all(query, ADD_HORSE)), ",", -1)
    IN  IF Len(parts) < 3 THEN Handled(<<"Invalid format. Use: add horse Name, Age, Breed">>, <<>>)
        ELSE IF strip(parts[1]) = <<>> THEN Handled(<<"Horse name cannot be empty">>, <<>>)
        ELSE IF int_of(strip(parts[2])).status # "ok"
        THEN Handled(<<"Age must be a number">>, <<>>)
        ELSE IF strip(parts[3]) = <<>> THEN Handled(<<"Horse breed cannot be empty">>, <<>>)
        ELSE Handled(<<"Added ", strip(parts[1]), " to the system.">>,
                     <<add_horse(h, c, strip(parts[1]), int_of(strip(parts[2])).value.v,
                                 strip(parts[3])).value>>)

\* HorseTrainerAdapter._handle_add_horse
_handle_add_horse(query, h, c) ==
    LET parts == split(strip(remove_all(query, ADD_HORSE)), ",", -1)
    IN  IF Len(parts) < 3 THEN Handled(<<"Invalid format. Use: add horse Name, Age, Breed">>, <<>>)
        ELSE IF strip(parts[1]) = <<>> THEN Handled(<<"Horse name cannot be empty">>, <<>>)
        ELSE IF int_of(strip(parts[2])).status # "ok"
        THEN Handled(<<"Age must be a number">>, <<>>)
        ELSE IF int_of(strip(parts[2])).value.v <= 0 \/ int_of(strip(parts[2])).value.v > 50
        THEN Handled(<<"Horse age must be between 1 and 50">>, <<>>)
        ELSE IF strip(parts[3]) = <<>> THEN Handled(<<"Horse breed cannot be empty">>, <<>>)
        ELSE LET added == add_horse(h, c, strip(parts[1]), int_of(strip(parts[2])).value.v,
                                    strip(parts[3]))
             IN  IF added.status # "ok" THEN added
                 ELSE Handled(<<"Added ", strip(parts[1]), " to the system.">>, <<added.value>>)

\* HorseTrainerAdapter._handle_add_note
_handle_add_note(query, h, c) ==
    LET parts == split(strip(remove_all(remove_all(query, NOTE_FOR), ADD_NOTE)), ":", 1)
    IN  IF Len(parts) < 2
        THEN Handled(<<"Invalid format. Use: note for Horse: Your note here">>, <<>>)
        ELSE IF strip(parts[1]) = <<>> THEN Handled(<<"Horse name cannot be empty">>, <<>>)
        ELSE IF strip(parts[2]) = <<>> THEN Handled(<<"Note cannot be empty">>, <<>>)
        ELSE LET noted == add_conversation(h, c, strip(parts[1]), strip(parts[2]))
             IN  IF noted.status # "ok"
                 THEN Handled(<<"No horse named '", strip(parts[1]), "' exists">>, <<>>)
                 ELSE Handled(<<"Added note for ", strip(parts[1]), ".">>, <<noted.value>>)

\* HorseTrainerAdapter._handle_list_horses
_handle_list_horses(h) ==
    IF DOMAIN h # {} THEN Handled(<<"Horses: ", DOMAIN h>>, <<>>)
    ELSE Handled(<<"No horses in the system yet.">>, <<>>)

\* HorseTrainerAdapter._handle_horse_info, with HorseMemorySystem.generate_summary
_handle_horse_info(query, h, c) ==
    LET matches == {horse \in DOMAIN h : contains(lower(query), lower(horse))}
    IN  IF DOMAIN h = {} THEN Handled(<<"No horses in the system yet.">>, <<>>)
        ELSE IF Cardinality(matches) = 1
        THEN LET horse_name == CHOOSE horse \in matches : TRUE
             IN  Handled(<<horse_name, " is a ", h[horse_name].age, "-year-old ",
                           h[horse_name].breed, ". Recent notes: ",
                           Len(Get(c, horse_name, <<>>)), " entries.">>, <<>>)
        ELSE IF Cardinality(matches) > 1
        THEN Handled(<<"Found multiple matches: ", matches, ". Please be more specific.">>, <<>>)
        ELSE Handled(<<"No matching horse found. Available horses: ", DOMAIN h>>, <<>>)

\* handle_query, lines 17-27: the handler the query is passed to
route(query, h, c) ==
    IF startswith(query, ADD_HORSE) THEN _handle_add_horse(query, h, c)
    ELSE IF startswith(query, NOTE_FOR) \/ startswith(query, ADD_NOTE)
    THEN _handle_add_note(query, h, c)
    ELSE IF contains(query, <<"l", "i", "s", "t", " ", "h", "o", "r", "s", "e", "s">>) THEN _handle_list_horses(h)
    ELSE IF contains(query, <<"a", "b", "o", "u", "t">>) \/ contains(query, <<"i", "n", "f", "o">>)
    THEN _handle_horse_info(query, h, c)
    ELSE Returned([reply |-> Py("None", <<>>), maps |-> <<>>])

\* HorseTrainerAdapter.handle_query on the maps h, c of its memory: an exception
\* of a handler is answered with an apology
handle_query(query_text, h, c) ==
    IF query_text.type # "str" THEN Handled(<<"Invalid query: input must be text">>, <<>>).value
    ELSE CHOOSE answer \in
             {IF outcome.status # "ok"
              THEN Handled(<<"Sorry, I encountered an error: ", outcome.status>>, <<>>).value
              ELSE outcome.value :
                  outcome \in {route(query, h, c) :
                                  query \in {strip(lower(query_text.v))}}} : TRUE

\* the queries put to the adapter, with the fields they were written from
Query(kind, name, age_text, detail, text) ==
    [kind |-> kind, name |-> name, age |-> age_text, detail |-> detail, text |-> text]

AddHorseQuery(name, age_text, breed) ==
    Query("add_horse", name, age_text, breed,
          Py("str", <<"A", "d", "d", " ", "h", "o", "r", "s", "e", " ">> \o name \o <<",", " ">> \o age_text.text
                        \o <<",", " ">> \o breed))

NoteQuery(name, note) ==
    Query("note", name, <<>>, note, Py("str", <<"N", "o", "t", "e", " ", "f", "o", "r", " ">> \o name \o <<":", " ">> \o note))

QueryNames == {<<"S", "t", "a", "r">>, <<"B", "o", "l", "t">>, <<>>}

\* the age as written and, when it is a number, its value
AgeTexts ==
    {[text |-> <<"5">>, value |-> <<5>>], [text |-> <<"1", "2">>, value |-> <<12>>],
     [text |-> <<"o", "l", "d">>, value |-> <<>>], [text |-> <<"0">>, value |-> <<0>>],
     [text |-> <<"5", "1">>, value |-> <<51>>], [text |-> <<"-", "3">>, value |-> <<-3>>]}

Breeds == {<<"A", "r", "a", "b">>, <<>>}

Notes == {<<"c", "a", "l", "m">>, <<>>}

Queries ==
    {AddHorseQuery(name, age_text, breed) :
         name \in QueryNames, age_text \in AgeTexts, breed \in Breeds}
    \cup {NoteQuery(name, note) : name \in QueryNames, note \in Notes}
    \cup {Query("list", <<>>, <<>>, <<>>, Py("str", <<"l", "i", "s", "t", " ", "h", "o", "r", "s", "e", "s">>)),
          Query("info", <<"S", "t", "a", "r">>, <<>>, <<>>, Py("str", <<"I", "n", "f", "o", " ", "o", "n", " ", "S", "t", "a", "r">>)),
          Query("other", <<>>, <<>>, <<>>, Py("str", <<"h", "e", "l", "l", "o">>)),
          Query("not_text", <<>>, <<>>, <<>>, Py("None", <<>>))}

NoQuery == [n |-> 0, asked |-> <<>>]

\* HorseTrainerAdapter.__init__ with no storage file: an empty memory
AdapterInit ==
    /\ CoreInit /\ ConfigIdle /\ DictIdle /\ LoaderIdle /\ ApiIdle /\ PreprocessorIdle
    /\ horses = <<<<>>>>
    /\ conversations = <<<<>>>>
    /\ lock = <<"free">>
    /\ pc = <<>>
    /\ storage_file = FileMissing
    /\ tmp_file = FileMissing
    /\ backups = {}
    /\ last_query = NoQuery
    /\ reply = <<>>
    /\ recent = <<>>

\* handle_query(query_text); a handler that changes the maps ends with save(),
\* which installs the new file or fails and reports it on the console only
HandleQuery ==
    /\ last_query.n < MaxQueries
    /\ \E asked \in Queries, saved \in BOOLEAN :
       \E answer \in {handle_query(asked.text, horses[1], conversations[1])} :
           /\ last_query' = [n |-> last_query.n + 1, asked |-> <<asked>>]
           /\ reply' = <<answer.reply>>
           /\ IF answer.maps = <<>>
              THEN /\ saved
                   /\ UNCHANGED <<horses, conversations, storage_file>>
              ELSE /\ horses' = <<answer.maps[1].horses>>
                   /\ conversations' = <<answer.maps[1].conversations>>
                   /\ storage_file' =
                          IF saved
                          THEN FileData(answer.maps[1].horses, answer.maps[1].conversations)
                          ELSE storage_file
    /\ UNCHANGED <<lock, pc, tmp_file, backups>>
    /\ UNCHANGED <<coreVars, cfgVars, recent, dictVars, loaderVars, apiVars, ppVars>>

AdapterSpec == AdapterInit /\ [][HandleQuery]_vars

\* the query is one of the malformed add-horse queries
InvalidAddHorse(asked) ==
    /\ asked.kind = "add_horse"
    /\ \/ asked.name = <<>>
       \/ asked.age.value = <<>>
       \/ \E a \in {asked.age.value[i] : i \in 1..Len(asked.age.value)} : a < 1 \/ a > 50
       \/ asked.detail = <<>>

\* the query is a note query without a name, without a note, or for a horse
\* that the maps h do not hold
InvalidNote(asked, h) ==
    /\ asked.kind = "note"
    /\ \/ asked.name = <<>>
       \/ asked.detail = <<>>
       \/ lower(asked.name) \notin DOMAIN h

\* C23: a malformed add-horse query and a note query that is malformed or names
\* an unknown horse are answered with a message text, and the horses and
\* conversations in memory and the storage file stay as they were.
C23_ErrorsRecovered ==
    [][\A asked \in Queries :
           (/\ last_query'.n = last_query.n + 1
            /\ last_query'.asked = <<asked>>
            /\ InvalidAddHorse(asked) \/ InvalidNote(asked, horses[1]))
               => /\ reply'[1].type = "str"
                  /\ horses' = horses
                  /\ conversations' = conversations
                  /\ storage_file' = storage_file
                  /\ tmp_file' = tmp_file]_vars

\* with Star in the store and on disk, an add-horse query with age 51 was
\* answered with the range message
C23_Witness ==
    /\ last_query.n > 1
    /\ InvalidAddHorse(last_query.asked[1])
    /\ last_query.asked[1].age.value = <<51>>
    /\ reply = <<Py("str", <<"Horse age must be between 1 and 50">>)>>
    /\ DOMAIN horses[1] = {<<"s", "t", "a", "r">>}
    /\ storage_file.kind = "data"

-----------------------------------------------------------------------------
\* The training set of train

\* rows of the merged frame made from training record r
RowsOfRecord(r) == {k \in 1..Len(result.merged) : result.merged[k].record = r}

\* profiles carrying the horse_id of training record r
ProfilesOfRecord(r) ==
    {p \in 1..Len(result.profiles) :
        result.profiles[p].id = result.training_data[r].horse_id}

\* C24: after train succeeds the training set has exactly one row for every
\* training record whose horse_id is the id of a supplied profile and no row for
\* any other record, and a profile without a record has no row.
C24_InnerJoin ==
    TrainSucceeded =>
        /\ \A r \in 1..Len(result.training_data) :
               Cardinality(RowsOfRecord(r)) = IF ProfilesOfRecord(r) # {} THEN 1 ELSE 0
        /\ \A p \in 1..Len(result.profiles) :
               (\A r \in 1..Len(result.training_data) : p \notin ProfilesOfRecord(r))
                   => \A k \in 1..Len(result.merged) : result.merged[k].profile # p

-----------------------------------------------------------------------------
\* Identity of the persisted profiles

\* no two profiles of the persisted collection share an id
UniqueIds(file) ==
    \A i, j \in 1..Len(Persisted(file)) :
        i # j => Persisted(file)[i].id # Persisted(file)[j].id

\* C30: after every sequence of create, update, delete and add-training-session
\* requests no two persisted profiles share an id, and a create whose id is
\* already persisted is answered with 400 and leaves the collection unchanged.
C30_IdsStayUnique ==
    /\ []UniqueIds(data_file)
    /\ [][(/\ response' # <<>>
           /\ response'[1].endpoint = "create_horse"
           /\ response'[1].horse_id \in PersistedIds(data_file))
              => (response'[1].status = 400 /\ data_file' = data_file)]_vars

-----------------------------------------------------------------------------
\* HorseProfile.recent_training, read while sessions are appended and the
\* calendar advances

RecentWindowDays == 30

\* HorseProfile.recent_training
recent_training(history, tdy) ==
    LET thirty_days_ago == fromordinal(toordinal(tdy) - RecentWindowDays)
    IN  SelectSeq(history, LAMBDA session : DateGe(session.date, thirty_days_ago))

\* sessions dated 31 days before, 30 days before, on and after the first day
RecentSessionPool ==
    {TrainingSession(Date(2024, 4, 10), "walk", 20, "low", 6, <<>>),
     TrainingSession(Date(2024, 4, 11), "trot", 30, "low", 7, <<>>),
     TrainingSession(Date(2024, 5, 11), "jump", 25, "high", 4, <<>>),
     TrainingSession(Date(2024, 5, 12), "canter", 40, "medium", 8, <<>>),
     TrainingSession(Date(2024, 6, 1), "trot", 30, "medium", 5, <<>>)}

RecentInit ==
    /\ CoreInit /\ SideIdle /\ LoaderIdle /\ ApiIdle /\ PreprocessorIdle /\ MemoryIdle
    /\ profile = NewProfile("h1", Date(2016, 2, 29), <<>>)
    /\ profile_dict = <<>>
    /\ restored = <<>>

\* profile.training_history.append(session)
RecentAppendSession ==
    /\ Len(profile.training_history) < MaxHistory
    /\ \E session \in RecentSessionPool :
           profile' = [profile EXCEPT !.training_history = Append(@, session)]
    /\ UNCHANGED <<profile_dict, restored, coreVars, sideVars, loaderVars, apiVars, ppVars, memVars>>

\* date.today() returns the next day
RecentClockTick ==
    /\ toordinal(today) < toordinal(RunDate) + MaxTicks
    /\ today' = fromordinal(toordinal(today) + 1)
    /\ UNCHANGED <<birth_date, medical_history, pureVars, modelVars, extVars>>

\* sessions = profile.recent_training
ReadRecentTraining ==
    /\ recent' = <<recent_training(profile.training_history, today)>>
    /\ UNCHANGED <<coreVars, dictVars, loaderVars, apiVars, ppVars, memVars, cfgVars, adapterVars>>

RecentNext == RecentAppendSession \/ RecentClockTick \/ ReadRecentTraining

RecentSpec == RecentInit /\ [][RecentNext]_vars

\* C25 as stated: a read of recent_training returns exactly the entries of
\* training_history dated from today - 30 days up to and including today, in
\* their training_history order, and leaves training_history as it was.
C25_RecentWindow ==
    [][recent' # recent =>
          /\ recent'[1] = SelectSeq(profile.training_history,
                              LAMBDA session :
                                  /\ toordinal(session.date) >= toordinal(today) - 30
                                  /\ toordinal(session.date) <= toordinal(today))
          /\ profile' = profile]_vars

-----------------------------------------------------------------------------
\* C26: for every horse of a generate_recommendations call, the recommendations
\* returned (sorted list cut to max_per_horse, then entries under min_confidence
\* dropped) are those of the other order: every activity under min_confidence
\* dropped from the sorted list first, then the first max_per_horse kept.
C26_CutThenFilter ==
    GenerateReturned =>
        \A i \in 1..Len(result.profiles) :
            LET sorted   == SortDesc(activity_scores(model.classes, result.probs[i]))
                filtered == SelectSeq(sorted, LAMBDA sc : sc.prob >= config.min_confidence)
                expected == SliceTo(filtered, config.max_per_horse)
                rs       == RecsOf(result.profiles[i].id)
            IN  /\ Len(rs) = Len(expected)
                /\ \A j \in 1..Len(rs) :
                       /\ rs[j].activity_type = expected[j].activity
                       /\ rs[j].confidence = round3(expected[j].prob)

\* a call where both steps act on one horse: the sorted list is longer than
\* max_per_horse, an activity inside the cut is under min_confidence and another
\* one is returned
C26_Witness ==
    /\ GenerateReturned
    /\ Len(result.profiles) = 2
    /\ \E i \in 1..Len(result.profiles) :
           LET sorted == SortDesc(activity_scores(model.classes, result.probs[i]))
           IN  /\ config.max_per_horse > 0
               /\ Len(sorted) > config.max_per_horse
               /\ sorted[config.max_per_horse].prob < config.min_confidence
               /\ Len(RecsOf(result.profiles[i].id)) > 0
               /\ Len(RecsOf(result.profiles[i].id)) < config.max_per_horse

-----------------------------------------------------------------------------
\* C27 as stated: a fit=false call that fails with the not-fitted error leaves
\* the preprocessor as it was before the call: the fitted flag and the imputer,
\* scaler and encoder are unchanged, so a never-fitted preprocessor is still
\* never-fitted after the failed call.
C27_FailedTransformKeepsState ==
    (pp_result # <<>> /\ ~pp_result[1].fit /\ pp_result[1].status = "NotFittedError") =>
        /\ pp_result[1].after = pp_result[1].before
        /\ preprocessor = pp_result[1].before
        /\ pp_result[1].before = NewPreprocessor => preprocessor = NewPreprocessor

-----------------------------------------------------------------------------
\* HorseMemorySystem starting empty and called through add_horse and
\* add_conversation only

NotesNext ==
    \/ AddHorseInvalid
    \/ AddHorseBegin
    \/ AddHorseConversations
    \/ AddConversationInvalid
    \/ AddConversationBegin
    \/ SaveDump
    \/ SaveReplace

NotesSpec == MemoryInit /\ [][NotesNext]_vars

\* the notes of every horse of instance i are kept, with at most new notes
\* appended at the end
NotesGrow(i) ==
    \A name \in DOMAIN conversations[i] :
        /\ name \in DOMAIN conversations'[i]
        /\ Len(conversations'[i][name]) >= Len(conversations[i][name])
        /\ SubSeq(conversations'[i][name], 1, Len(conversations[i][name])) = conversations[i][name]

\* thread t enters add_horse
AddHorseEntered(t) == Idle(t) /\ pc'[t].op = "add_horse"

\* C28: from an empty HorseMemorySystem and through add_horse and
\* add_conversation calls, successful or failing: whenever no call is in progress
\* on an instance the names of horses and of conversations are the same; a name
\* of conversations is always a name of horses; add_horse of an existing name
\* stores the age and breed it was called with and leaves the notes of that name
\* as they were; the notes of a horse change only by appending at the end.
C28_NotesInvariants ==
    /\ [](\A i \in Instances :
              /\ DOMAIN conversations[i] \subseteq DOMAIN horses[i]
              /\ lock[i] = "free" => DOMAIN horses[i] = DOMAIN conversations[i])
    /\ [][\A i \in Instances : NotesGrow(i)]_vars
    /\ [][\A t \in Threads :
              AddHorseEntered(t) =>
                  /\ horses'[pc[t].inst][pc'[t].name] = pc'[t].details[1]
                  /\ \A name \in DOMAIN horses[pc[t].inst] \ {pc'[t].name} :
                         horses'[pc[t].inst][name] = horses[pc[t].inst][name]]_vars
    /\ [][\A t \in Threads :
              (pc[t].op = "add_horse" /\ pc[t].name \in DOMAIN conversations[pc[t].inst]) =>
                  conversations'[pc[t].inst][pc[t].name] = conversations[pc[t].inst][pc[t].name]]_vars

\* a horse stored with age 3 that has a note is added again with age 7 and another
\* breed: both writes of the call are done, the new details are stored and the
\* note is still there, while the file still holds the earlier details
C28_Witness ==
    /\ pc["t2"].inst = 1
    /\ pc["t2"].op = "add_horse" /\ pc["t2"].step = "dump" /\ pc["t2"].name = "Star"
    /\ pc["t2"].details = <<[age |-> 7, breed |-> "Morgan"]>>
    /\ horses[1]["Star"] = [age |-> 7, breed |-> "Morgan"]
    /\ Len(conversations[1]["Star"]) = 1
    /\ storage_file.kind = "data"
    /\ "Star" \in DOMAIN storage_file.horses
    /\ storage_file.horses["Star"] = [age |-> 3, breed |-> "Arabian"]
    /\ storage_file.conversations = conversations[1]

-----------------------------------------------------------------------------
\* HorseMemorySystem.save when writing the temporary file can fail
\* A crash leaves both files as they are at that point, so what holds of the
\* storage file in every reachable state holds after a crash at any point.

\* save, lines 66-67 and 69-70: json.dump raises part-way (a value that is not
\* serialisable, a full disk); the temporary file keeps the partial text, the
\* exception is caught and printed, and the caller of save returns normally
SaveDumpFails ==
    \E t \in Threads :
        /\ pc[t].step = "dump"
        /\ tmp_file' = [kind |-> "corrupt"]
        /\ pc' = [pc EXCEPT ![t] = Leave(t, "save_failed")]
        /\ lock' = IF pc[t].op = "save" THEN lock ELSE [lock EXCEPT ![pc[t].inst] = "free"]
        /\ UNCHANGED <<horses, conversations, storage_file, backups, coreVars, sideVars, dictVars, loaderVars, apiVars, ppVars>>

DurableNext == NotesNext \/ SaveDumpFails

DurableSpec == MemoryInit /\ [][DurableNext]_vars

\* thread t returns normally from add_horse or add_conversation
AddReturns(t) ==
    /\ pc[t].op \in {"add_horse", "add_conversation"}
    /\ pc'[t].step = "idle"

\* C29 as stated: the storage path never holds a partial write: it holds the
\* previous content until a replace installs the complete maps of an instance
\* that saved; and when both threads use one instance, the file equals the
\* in-memory horses and conversations after every add_horse or add_conversation
\* that returns normally.
C29_AtomicSave ==
    /\ [](storage_file.kind \in {"missing", "data"})
    /\ [][storage_file' # storage_file =>
              /\ \E t \in Threads : pc[t].step = "replace" /\ pc'[t].step = "idle"
              /\ \E i \in Instances : storage_file' = save_data(i)]_vars
    /\ [][\A t \in Threads :
              (AddReturns(t) /\ pc["t2"].inst = 1) =>
                  storage_file' = FileData(horses'[1], conversations'[1])]_vars

====
